---- MODULE Spec2Model ----
(***************************************************************************)
(* Model of the SEC fact-reconciliation and ratio pipeline of              *)
(* scripts/test.py: get_latest_filing_facts (the reconciler),              *)
(* fetch_single_ticker_market_data, calculate_ratios and main.             *)
(*                                                                         *)
(* Dates are day numbers; weekday(d) = d % 7 with 0 = Monday, so 5 and 6   *)
(* are Saturday and Sunday.  A pandas/numpy float cell is a record         *)
(* [t, n, d]: t = "num" is the quotient n/d, "nan" is NaN/None, "inf" and  *)
(* "ninf" are the IEEE infinities a float division by zero produces.       *)
(* An optional date (the 'start' of a fact) is a set: {} is None/NaT,      *)
(* {d} is the date d.                                                      *)
(***************************************************************************)
EXTENDS Integers, Sequences, FiniteSets, TLC

\* ------------------------------------------------------------------------
\* Bounds
\* ------------------------------------------------------------------------
MaxFacts == 2
NumTickers == 2
MaxWords == 2
MaxFilings == 2
NumStreams == 2

\* ------------------------------------------------------------------------
\* Program constants
\* ------------------------------------------------------------------------
MAX_DAYS_FORWARD == 5

\* pd.Timestamp.today().normalize() of the run
Today == 2

\* ------------------------------------------------------------------------
\* Float cells
\* ------------------------------------------------------------------------
Num(x) == [t |-> "num", n |-> x, d |-> 1]
NaN == [t |-> "nan", n |-> 0, d |-> 1]
PosInf == [t |-> "inf", n |-> 1, d |-> 0]
NegInf == [t |-> "ninf", n |-> 0 - 1, d |-> 0]

\* a value that is no number: the string an entry carries as 'val'
Text == [t |-> "text", n |-> 1, d |-> 1]

\* the TypeError an arithmetic operator raises on a string operand
Err == [t |-> "err", n |-> 1, d |-> 1]

IsNull(c) == c.t = "nan"
IsText(c) == c.t \in {"text", "err"}
IsInfinite(c) == c.t \in {"inf", "ninf"}

\* Series / Series: NaN propagates, x/0 is +-inf, 0/0 is NaN.  On a column
\* that holds a string the operator is applied to the rows where both operands
\* are non-null, and raises TypeError there.
FloatDiv(a, b) ==
    IF IsNull(a) \/ IsNull(b) THEN NaN
    ELSE IF IsText(a) \/ IsText(b) THEN Err
    ELSE IF b.n = 0
         THEN IF a.n = 0 THEN NaN ELSE IF a.n > 0 THEN PosInf ELSE NegInf
         ELSE [t |-> "num", n |-> a.n, d |-> b.n]

\* Series - Series (or Series - 0.0): NaN propagates.
FloatSub(a, b) ==
    IF IsNull(a) \/ IsNull(b) THEN NaN
    ELSE IF IsText(a) \/ IsText(b) THEN Err
    ELSE Num(a.n - b.n)

FloatMul(a, b) ==
    IF IsNull(a) \/ IsNull(b) THEN NaN ELSE Num(a.n * b.n)

\* ------------------------------------------------------------------------
\* Sequence helpers
\* ------------------------------------------------------------------------
Range(s) == {s[k] : k \in 1..Len(s)}

SetMax(S) == CHOOSE x \in S : \A y \in S : y <= x

\* ------------------------------------------------------------------------
\* standard_map: canonical concept -> GAAP tag aliases
\* ------------------------------------------------------------------------
Concepts ==
    << "Net Income", "Total Equity", "Total Debt", "Current Assets",
       "Current Liabilities", "Revenues", "Cost of Goods Sold",
       "Earnings Per Share", "Operating Cash Flow", "CapEx" >>

standard_map ==
    [c \in Range(Concepts) |->
        CASE c = "Net Income" ->
               { "NetIncomeLossAvailableToCommonStockholdersBasic",
                 "NetIncomeFromContinuingOperations",
                 "NetIncomeApplicableToCommonStockholders",
                 "NetIncomeLoss", "NetIncome" }
          [] c = "Total Equity" ->
               { "StockholdersEquity", "StockholdersEquityAttributableToParent",
                 "TotalStockholdersEquity", "ShareholdersEquity",
                 "CommonStockholdersEquity" }
          [] c = "Total Debt" ->
               { "TotalDebt", "LongTermDebtAndCapitalLeaseObligations",
                 "DebtAndCapitalLeaseObligations", "LongTermDebt", "DebtCurrent",
                 "LongTermDebtCurrent", "ShortTermDebt",
                 "DebtInstrumentUnamortizedDiscountPremiumAndDebtIssuanceCostsNet" }
          [] c = "Current Assets" -> { "AssetsCurrent", "CurrentAssets" }
          [] c = "Current Liabilities" -> { "LiabilitiesCurrent", "CurrentLiabilities" }
          [] c = "Revenues" ->
               { "Revenues", "SalesRevenueNet", "RevenuesNetOfInterestExpense",
                 "TotalRevenue", "Revenue",
                 "RevenueFromContractWithCustomerExcludingAssessedTax" }
          [] c = "Cost of Goods Sold" ->
               { "CostOfGoodsSold", "CostOfRevenue", "CostOfGoodsAndServicesSold" }
          [] c = "Earnings Per Share" ->
               { "EarningsPerShareBasic", "EarningsPerShareDiluted",
                 "EarningsPerShare", "BasicEarningsPerShare",
                 "DilutedEarningsPerShare" }
          [] c = "Operating Cash Flow" ->
               { "NetCashProvidedByUsedInOperatingActivities", "OperatingCashFlow",
                 "CashFlowFromOperations", "NetCashFromOperatingActivities",
                 "NetCashProvidedByUsedInOperatingActivitiesContinuingOperations" }
          [] c = "CapEx" ->
               { "PaymentsToAcquireProductiveAssets",
                 "PaymentsToAcquirePropertyPlantAndEquipment",
                 "CapitalExpendituresIncurredButNotYetPaid", "CapitalExpenditures",
                 "CapitalExpenditure", "PurchaseOfPropertyPlantAndEquipment",
                 "InvestingCashFlowCapitalExpenditures", "AcquisitionsNet" }]

allowed_fact_keys == UNION {standard_map[c] : c \in Range(Concepts)}

\* ------------------------------------------------------------------------
\* get_latest_filing_facts, lines 219-257: the reconciler.
\* A fact is [fact_key, value, start, end, filed]; 'end' is {} when the
\* entry has no parseable period end (pd.to_datetime(..., errors='coerce')).
\* ------------------------------------------------------------------------
NotFuture(f) == f.end # {} /\ (\A e \in f.end : e <= Today)

EndOf(f) == CHOOSE e \in f.end : TRUE

\* sort_values(by='start', ascending=False): rows with a start in descending
\* order of start, rows that tie keep their listing order, rows without a
\* start (None/NaT) are placed last in their listing order.
RECURSIVE SortByStartDesc(_)
SortByStartDesc(rows) ==
    LET withStart == SelectSeq(rows, LAMBDA f : f.start # {})
        noStart == SelectSeq(rows, LAMBDA f : f.start = {})
    IN  IF withStart = <<>> THEN noStart
        ELSE LET top == SetMax(UNION {f.start : f \in Range(withStart)})
             IN  SelectSeq(withStart, LAMBDA f : f.start = {top})
                 \o SortByStartDesc(SelectSeq(rows, LAMBDA f : f.start # {top}))

\* row_max without the sort on 'start': the first listed row of the latest end
row_max_unsorted(sub) ==
    LET max_end == SetMax({EndOf(f) : f \in Range(sub)})
    IN  Head(SelectSeq(sub, LAMBDA f : EndOf(f) = max_end))

\* lines 246-254: the row chosen for one concept among its candidate rows
row_max(sub) ==
    LET max_end == SetMax({EndOf(f) : f \in Range(sub)})
        sub_max_end == SelectSeq(sub, LAMBDA f : EndOf(f) = max_end)
        sub_sorted == SortByStartDesc(sub_max_end)
    IN  Head(sub_sorted)

\* lines 228-229 alone: official filing date, without the fallback
df_official_exact(df_facts, filing_date) ==
    SelectSeq(df_facts, LAMBDA f : f.filed = filing_date)

\* lines 228-233: official filing date, else the maximum filed date
df_official(df_facts, filing_date) ==
    LET exact == SelectSeq(df_facts, LAMBDA f : f.filed = filing_date)
    IN  IF exact # <<>> THEN exact
        ELSE LET max_filed == SetMax({f.filed : f \in Range(df_facts)})
             IN  SelectSeq(df_facts, LAMBDA f : f.filed = max_filed)

\* lines 241-254: one row per concept that has candidates, in standard_map order
RECURSIVE result_rows(_, _)
result_rows(df_mapped, friendlies) ==
    IF friendlies = <<>> THEN <<>>
    ELSE LET friendly == Head(friendlies)
             sub == SelectSeq(df_mapped, LAMBDA f : f.fact_key \in standard_map[friendly])
         IN  (IF sub = <<>> THEN <<>>
              ELSE << [mapping |-> friendly] @@ row_max(sub) >>)
             \o result_rows(df_mapped, Tail(friendlies))

\* the reconciler without the selection of one row: every candidate row of
\* every concept is appended to the result
RECURSIVE every_row(_, _)
every_row(df_mapped, friendlies) ==
    IF friendlies = <<>> THEN <<>>
    ELSE LET sub == SelectSeq(df_mapped,
                              LAMBDA f : f.fact_key \in standard_map[Head(friendlies)])
         IN  [k \in 1..Len(sub) |-> [mapping |-> Head(friendlies)] @@ sub[k]]
             \o every_row(df_mapped, Tail(friendlies))

reconcile_every_row(facts, filing_date) ==
    LET df_facts == SelectSeq(facts, NotFuture)
    IN  IF df_facts = <<>> THEN <<>>
        ELSE every_row(SelectSeq(df_official(df_facts, filing_date),
                                 LAMBDA f : f.fact_key \in allowed_fact_keys),
                       Concepts)

\* lines 219-257
reconcile(facts, filing_date) ==
    LET df_facts == SelectSeq(facts, NotFuture)
    IN  IF df_facts = <<>> THEN <<>>
        ELSE LET df_mapped == SelectSeq(df_official(df_facts, filing_date),
                                     LAMBDA f : f.fact_key \in allowed_fact_keys)
             IN  result_rows(df_mapped, Concepts)


\* ------------------------------------------------------------------------
\* fetch_single_ticker_market_data, lines 272-320.
\* A provider answer for one candidate day is [hist, close, nfail, info]:
\*   hist  - "raise" (the history call raises), "empty" (no bar),
\*           "nan" (a bar whose Close is NaN) or "price" (Close = close);
\*   nfail - how many of the up to 3 reads of stock.info raise;
\*   info  - the snapshot a successful read returns; each of its keys is
\*           [has, val]: absent (has = FALSE), None (val = NaN) or a number.
\* ------------------------------------------------------------------------
Absent == [has |-> FALSE, val |-> NaN]
NoneValue == [has |-> TRUE, val |-> NaN]
Value(x) == [has |-> TRUE, val |-> Num(x)]

EmptyInfo == [sharesOutstanding |-> Absent, marketCap |-> Absent, dividendRate |-> Absent]

\* the empty dict fetch_single_ticker_market_data returns when it finds nothing
EmptyDict ==
    [found |-> FALSE, ticker |-> 0, as_of_date |-> 0, actual_market_date |-> 0,
     market_price |-> NaN, market_cap |-> NaN, dividend |-> NaN]

\* Python truthiness of a looked-up number: None and 0 are falsy
Truthy(field) == field.has /\ ~IsNull(field.val) /\ field.val.n # 0

\* line 285 with a comparison that lets Saturday through
IsWeekendSundayOnly(date) == date % 7 > 5

\* line 285: try_date.weekday() >= 5
IsWeekend(date) == date % 7 >= 5

\* lines 295-302: the snapshot left after at most 3 reads of stock.info
info_after_retries(answer) == IF answer.nfail >= 3 THEN EmptyInfo ELSE answer.info

\* the loop of lines 296-302 without its break: three reads whatever they give
info_reads_no_break(nfail) ==
    [k \in 1..3 |-> IF k <= nfail THEN "raise" ELSE "ok"]

\* lines 296-302: the reads of stock.info in order, "raise" for a read that
\* raised and "ok" for the read that returned, after which the loop breaks
info_reads(nfail) ==
    IF nfail >= 3 THEN <<"raise", "raise", "raise">>
    ELSE [k \in 1..(nfail + 1) |-> IF k <= nfail THEN "raise" ELSE "ok"]

\* a market capitalization that prefers the provider's marketCap field
market_cap_reported_first(close_price, info) ==
    IF info.marketCap.has THEN info.marketCap.val
    ELSE IF Truthy(info.sharesOutstanding)
    THEN FloatMul(Num(close_price), info.sharesOutstanding.val)
    ELSE NaN

\* lines 303-307
market_cap_of(close_price, info) ==
    IF Truthy(info.sharesOutstanding)
    THEN FloatMul(Num(close_price), info.sharesOutstanding.val)
    ELSE IF info.marketCap.has THEN info.marketCap.val ELSE NaN

\* line 308: info.get('dividendRate', 0.0)
dividend_of(info) == IF info.dividendRate.has THEN info.dividendRate.val ELSE Num(0)

\* lines 283-319: one iteration of the loop over offsets.  The result is
\* [returned, data, seen]: returned = FALSE is 'continue'; seen records what
\* the iteration met ("weekend", "raise", "empty", "nan", or "price" when the
\* history call gave a closing price).
try_offset(ticker, base_date, offset, answer) ==
    LET try_date == base_date + offset
        go_on(seen) == [returned |-> FALSE, data |-> EmptyDict, seen |-> seen]
    IN  IF IsWeekend(try_date) THEN go_on("weekend")
        ELSE IF answer.hist = "raise" THEN go_on("raise")
        ELSE IF answer.hist = "empty" THEN go_on("empty")
        ELSE IF answer.hist = "nan" THEN go_on("nan")
        ELSE LET info == info_after_retries(answer)
                 market_cap == market_cap_of(answer.close, info)
                 dividend == dividend_of(info)
             IN  \* float(None) at line 315 raises TypeError, caught at line 317
                 IF IsNull(dividend) THEN go_on("price")
                 ELSE [returned |-> TRUE,
                       data |-> [found |-> TRUE, ticker |-> ticker,
                                 as_of_date |-> base_date,
                                 actual_market_date |-> try_date,
                                 market_price |-> Num(answer.close),
                                 \* float(market_cap) if market_cap else np.nan
                                 market_cap |-> IF IsNull(market_cap) \/ market_cap.n = 0
                                                THEN NaN ELSE market_cap,
                                 dividend |-> dividend],
                       seen |-> "price"]

\* lines 282-320: the whole loop, from `offset` on, against a provider whose
\* answer for the day at offset k is provider[k]
RECURSIVE fetch_from(_, _, _, _)
fetch_from(ticker, base_date, offset, provider) ==
    IF offset > MAX_DAYS_FORWARD THEN EmptyDict
    ELSE LET step == try_offset(ticker, base_date, offset, provider[offset])
         IN  IF step.returned THEN step.data
             ELSE fetch_from(ticker, base_date, offset + 1, provider)

\* lines 279-320; reported_date is {} when it is NaT
fetch_single_ticker_market_data(ticker, reported_date, provider) ==
    IF reported_date = {} THEN EmptyDict
    ELSE fetch_from(ticker, EndOf([end |-> reported_date]), 0, provider)

\* ------------------------------------------------------------------------
\* calculate_ratios, lines 326-390.
\* sec_df is the sequence of reconciled rows of all tickers (each with its
\* ticker), market_df the sequence of dicts the market fetcher returned.
\* The metadata columns company_name, industry_name and segment are functions
\* of the ticker and are copied through; they are left out of the rows.
\* ------------------------------------------------------------------------
\* pivot_table aggregates the non-null values only
Valued(sec_df) == SelectSeq(sec_df, LAMBDA r : ~IsNull(r.value))

\* the columns of the pivot: the mappings that have a value for some ticker
pivot_columns(valued) == {r.mapping : r \in Range(valued)}

\* the index of the pivot, sorted by (ticker, end)
RECURSIVE SortIndex(_)
SortIndex(S) ==
    IF S = {} THEN <<>>
    ELSE LET lo == CHOOSE x \in S :
                      \A y \in S : x[1] < y[1] \/ (x[1] = y[1] /\ x[2] <= y[2])
         IN  <<lo>> \o SortIndex(S \ {lo})

pivot_index(valued) == SortIndex({<<r.ticker, EndOf(r)>> : r \in Range(valued)})

\* aggfunc='first': the first value of the group (ticker, end) for a mapping,
\* NaN when the group has none
pivot_cell(group, mapping) ==
    LET cells == SelectSeq(group, LAMBDA r : r.mapping = mapping)
    IN  IF cells = <<>> THEN NaN ELSE Head(cells).value

\* how='left' merge on (ticker, as_of_date): the market rows matching a key
market_matches(market_df, ticker, as_of_date) ==
    SelectSeq(market_df, LAMBDA m : m.ticker = ticker /\ m.as_of_date = as_of_date)

NoMarket == [market_price |-> NaN, market_cap |-> NaN, dividend |-> NaN]

\* merged[...] raises KeyError for a column the pivot does not have
required_columns ==
    {"Net Income", "Total Equity", "Total Debt", "Current Assets",
     "Current Liabilities", "Revenues", "Operating Cash Flow", "Earnings Per Share"}

\* lines 365-388 for one row of the merge: `group` holds the valued rows of
\* (ticker, end), `columns` the columns of the pivot
final_row(group, columns, ticker, end, market) ==
    LET col(c) == pivot_cell(group, c)
        \* merged.get(name, 0.0): the column when the pivot has it, else 0.0
        get(c) == IF c \in columns THEN col(c) ELSE Num(0)
        Free_Cash_Flow == FloatSub(col("Operating Cash Flow"), get("CapEx"))
    IN  [ticker |-> ticker,
         as_of_date |-> end,
         market_price |-> market.market_price,
         market_cap |-> market.market_cap,
         dividend |-> market.dividend,
         Free_Cash_Flow |-> Free_Cash_Flow,
         ROE |-> FloatDiv(col("Net Income"), col("Total Equity")),
         Debt_to_Equity |-> FloatDiv(col("Total Debt"), col("Total Equity")),
         Current_Ratio |-> FloatDiv(col("Current Assets"), col("Current Liabilities")),
         Gross_Margin |-> FloatDiv(FloatSub(col("Revenues"), get("Cost of Goods Sold")),
                                   col("Revenues")),
         P_E_Ratio |-> FloatDiv(market.market_price, col("Earnings Per Share")),
         FCF_Yield |-> FloatDiv(Free_Cash_Flow, market.market_cap)]

\* the rows of the left merge for the index entries `index`
RECURSIVE merged_rows(_, _, _, _)
merged_rows(valued, columns, market_df, index) ==
    IF index = <<>> THEN <<>>
    ELSE LET ticker == Head(index)[1]
             end == Head(index)[2]
             group == SelectSeq(valued, LAMBDA r : r.ticker = ticker /\ EndOf(r) = end)
             found == market_matches(market_df, ticker, end)
             these == IF found = <<>>
                      THEN <<final_row(group, columns, ticker, end, NoMarket)>>
                      ELSE [k \in 1..Len(found) |->
                               final_row(group, columns, ticker, end, found[k])]
         IN  these \o merged_rows(valued, columns, market_df, Tail(index))

\* drop_duplicates(): the first occurrence of every row
RECURSIVE drop_duplicates(_)
drop_duplicates(rows) ==
    IF rows = <<>> THEN <<>>
    ELSE LET rest == drop_duplicates(SelectSeq(Tail(rows), LAMBDA r : r # Head(rows)))
         IN  <<Head(rows)>> \o rest

\* lines 373-388: merged[final_cols]
final_cols(row) ==
    [c \in DOMAIN row \ {"Free_Cash_Flow"} |-> row[c]]

\* lines 365-371 raise TypeError on a row where an operand is a string
raises_type_error(row) ==
    \E c \in {"ROE", "Debt_to_Equity", "Current_Ratio", "Gross_Margin",
               "Free_Cash_Flow", "P_E_Ratio", "FCF_Yield"} : row[c] = Err

\* lines 333-390: [raised, rows]; raised is the KeyError of a missing column
\* or the TypeError of a string operand
calculate_ratios(sec_df, market_df) ==
    LET valued == Valued(sec_df)
        columns == pivot_columns(valued)
        index == pivot_index(valued)
    IN  IF sec_df = <<>> \/ market_df = <<>> THEN [raised |-> FALSE, rows |-> <<>>]
        ELSE IF index = <<>> THEN [raised |-> FALSE, rows |-> <<>>]
        ELSE IF ~(required_columns \subseteq columns)
             THEN [raised |-> TRUE, rows |-> <<>>]
        ELSE LET merged == merged_rows(valued, columns, market_df, index)
             IN  IF \E k \in 1..Len(merged) : raises_type_error(merged[k])
                 THEN [raised |-> TRUE, rows |-> <<>>]
                 ELSE [raised |-> FALSE,
                       rows |-> drop_duplicates([k \in 1..Len(merged) |->
                                                   final_cols(merged[k])])]

\* ------------------------------------------------------------------------
\* State
\* ------------------------------------------------------------------------
VARIABLES
    r_facts,    \* reconciler: the flattened facts of one issuer, as listed
    r_filing,   \* reconciler: filing date of the target filing
    r_rows,     \* reconciler: rows returned by the latest invocation
    r_first,    \* reconciler: rows returned by the first invocation
    r_calls,    \* reconciler: number of invocations so far
    r_relisted, \* reconciler: the facts were listed anew since the last invocation
    m_date,     \* market fetch: reported_date, {} when it is NaT
    m_offset,   \* market fetch: the next offset of the loop
    m_seen,     \* market fetch: what each iteration so far met
    m_data,     \* market fetch: the dict returned
    m_info,     \* market fetch: the stock.info snapshot of the latest priced day
    m_done,     \* market fetch: the call has returned
    m_reads,    \* market fetch: the reads of stock.info on the latest priced day
    pc,         \* main: "sec", "market", "ratios" or "done"
    b_i,        \* main: position in the ticker list of the SEC loop
    b_status,   \* main: per ticker, how its SEC stage ended
    sec_frames, \* main: the reconciled rows collected so far (sec_df)
    b_needed,   \* main: the (ticker, end) pairs of the market loop
    b_j,        \* main: position in the (ticker, end) pairs of the market loop
    market_frames, \* main: the market dicts collected so far
    b_exit,     \* main: how the run ended
    table,      \* the persisted output table
    b_run,      \* main: 1 in the first run of the batch, 2 in the second
    b_first,    \* main: exit and persisted table of the first run
    b_sec_in,   \* upstream: per ticker, what the SEC answered in the first run
    b_mkt_in,   \* upstream: per (ticker, end) pair, the market data provider
    s_cik,      \* SEC fetch: the ticker is a key of CIK_MAPPING
    s_pc,       \* SEC fetch: "submissions", "facts" or "done"
    s_attempt,  \* SEC fetch: number of the current attempt of the retried call
    s_waiting,  \* SEC fetch: the retry is sleeping before the next attempt
    s_log,      \* SEC fetch: the attempts and waits so far
    s_result,   \* SEC fetch: "pending", "skipped" or "record"
    a_query,    \* API: the stock_query path parameter, a sequence of words
    a_fault,    \* API: what is wrong around the request, "none" when nothing is
    a_route,    \* API: the route that answered, "none" before the response
    a_status,   \* API: HTTP status of the response
    a_body,     \* API: JSON body of the response
    f_feed,     \* filing locator: the recent filings of the submissions document
    f_fetched,  \* filing locator: get_submission_data_for_ticker returned the feed
    f_pc,       \* filing locator: "call" before, "done" after get_latest_filing_info
    f_recent,   \* filing locator: the filing returned, {} for (None, None, None)
    p_concept,  \* alias order: the concept whose alias list was reordered, "" for none
    p_keys,     \* alias order: that concept's alias list as reordered
    results_store, \* greeter: the entries stored for the task_id, at most one
    t_pc,       \* background task: "idle", "scheduled", "quant", "synth", "done" or "raised"
    t_quant,    \* background task: how the quantitative call ended, "" before
    t_synth,    \* background task: how the synthesis call ended, "" before
    t_calls,    \* background task: the calls made so far
    t_writes,   \* background task: the entries it has written, in order
    g_streams,  \* SSE: per stream on the task_id, [pc, cycles_waited, polls, events]
    q_route,    \* request: the route it is for
    q_header,   \* request: its Authorization header, [present, scheme, token]
    q_pc,       \* request: "idle", "received", "rejected", "verified" or "handled"
    q_status,   \* request: HTTP status of the response, 0 before
    q_user,     \* request: request.state.user, "" when not set
    q_effects   \* request: what its handler has started or called

recVars == <<r_facts, r_filing, r_rows, r_first, r_calls, r_relisted>>
mktVars == <<m_date, m_offset, m_seen, m_data, m_info, m_done, m_reads>>
batchVars == <<pc, b_i, b_status, sec_frames, b_needed, b_j, market_frames, b_exit, table,
               b_run, b_first, b_sec_in, b_mkt_in>>
secVars == <<s_cik, s_pc, s_attempt, s_waiting, s_log, s_result>>
apiVars == <<a_query, a_fault, a_route, a_status, a_body>>
filVars == <<f_feed, f_fetched, f_pc, f_recent>>
aliasVars == <<p_concept, p_keys>>
taskVars == <<t_pc, t_quant, t_synth, t_calls, t_writes>>
sseVars == <<results_store, taskVars, g_streams>>
authVars == <<q_route, q_header, q_pc, q_status, q_user, q_effects>>
extVars == <<filVars, aliasVars, sseVars, authVars>>
auxVars == <<secVars, apiVars, extVars>>
vars == <<recVars, mktVars, batchVars, auxVars>>

\* ------------------------------------------------------------------------
\* One call of fetch_single_ticker_market_data, an iteration at a time
\* ------------------------------------------------------------------------
HistOutcomes == {"raise", "empty", "nan", "price"}
InfoFields == {Absent, NoneValue}
Infos ==
    [sharesOutstanding : InfoFields \cup {Value(0), Value(3)},
     marketCap : InfoFields \cup {Value(0), Value(40)},
     dividendRate : InfoFields \cup {Value(1)}]
\* the snapshot a read returns does not depend on how many reads raised before
\* it: after one or two failures the reads give one fixed snapshot
RetriedInfo == [sharesOutstanding |-> Value(3), marketCap |-> Value(40), dividendRate |-> Absent]

\* the snapshot matters only when a read succeeds on a day with a closing price
Answers ==
    [hist : HistOutcomes \ {"price"}, close : {7}, nfail : {3}, info : {EmptyInfo}]
    \cup [hist : {"price"}, close : {7}, nfail : {3}, info : {EmptyInfo}]
    \cup [hist : {"price"}, close : {7}, nfail : {0}, info : Infos]
    \cup [hist : {"price"}, close : {7}, nfail : 1..2, info : {RetriedInfo}]

MktIdle ==
    /\ m_date = {}
    /\ m_offset = 0
    /\ m_seen = <<>>
    /\ m_data = EmptyDict
    /\ m_info = EmptyInfo
    /\ m_done = TRUE
    /\ m_reads = <<>>

MktInit ==
    /\ m_date \in {{}} \cup {{d} : d \in 0..6}
    /\ m_offset = 0
    /\ m_seen = <<>>
    /\ m_data = EmptyDict
    /\ m_info = EmptyInfo
    /\ m_done = FALSE
    /\ m_reads = <<>>

\* lines 279-280: pd.isna(reported_date)
ReturnOnNaT ==
    /\ ~m_done /\ m_date = {}
    /\ m_done' = TRUE
    /\ UNCHANGED <<m_date, m_offset, m_seen, m_data, m_info, m_reads, recVars, batchVars, auxVars>>

\* lines 282-320: one iteration; after the last offset the call returns {}
TryDate ==
    /\ ~m_done /\ m_date # {} /\ m_offset <= MAX_DAYS_FORWARD
    /\ \E base \in m_date, answer \in Answers :
          LET step == try_offset(1, base, m_offset, answer)
          IN  /\ m_seen' = Append(m_seen, step.seen)
              /\ m_data' = step.data
              /\ m_info' = IF step.seen = "price" THEN info_after_retries(answer)
                            ELSE m_info
              /\ m_reads' = IF step.seen = "price" THEN info_reads(answer.nfail)
                             ELSE m_reads
              /\ m_done' = (step.returned \/ m_offset = MAX_DAYS_FORWARD)
    /\ m_offset' = m_offset + 1
    /\ UNCHANGED <<m_date, recVars, batchVars, auxVars>>

\* ------------------------------------------------------------------------
\* The reconciler on bounded fact lists
\* ------------------------------------------------------------------------
RKeys == {"Revenues", "SalesRevenueNet", "NetIncomeLoss"}
RValues == {Num(10), Num(20)}
RFiled == {3, 4}
RPeriods == {p \in [start : {{}, {1}, {2}}, end : {{1}, {2}}] :
                \A s \in p.start : \A e \in p.end : s <= e}

FactUniverse ==
    {[fact_key |-> k, value |-> v, start |-> p.start, end |-> p.end, filed |-> fd] :
        k \in RKeys, v \in RValues, p \in RPeriods, fd \in RFiled}

FactLists == UNION {[1..n -> FactUniverse] : n \in 0..MaxFacts}

RecIdle ==
    /\ r_facts = <<>>
    /\ r_filing = 0
    /\ r_rows = <<>>
    /\ r_first = <<>>
    /\ r_calls = 0
    /\ r_relisted = FALSE

RecInit ==
    /\ r_facts \in FactLists
    /\ r_filing \in RFiled
    /\ r_rows = <<>>
    /\ r_first = <<>>
    /\ r_calls = 0
    /\ r_relisted = FALSE

\* facts_to_df (lines 172-197) appends every entry of every us-gaap tag:
\* 'value' is entry.get('val'), None when the entry has no val, 'end' is
\* entry.get('end', None); tags outside standard_map are listed too.
XKeys == {"Revenues", "NetIncomeLoss", "Assets"}
XValues == {NaN, Num(10)}
XEnds == {{}, {1}, {2}, {3}}

facts_to_df_rows ==
    {[fact_key |-> k, value |-> v, start |-> {}, end |-> e, filed |-> fd] :
        k \in XKeys, v \in XValues, e \in XEnds, fd \in RFiled}

ExtractLists == UNION {[1..n -> facts_to_df_rows] : n \in 0..MaxFacts}

ExtractInit ==
    /\ r_facts \in ExtractLists
    /\ r_filing \in RFiled
    /\ r_rows = <<>>
    /\ r_first = <<>>
    /\ r_calls = 0
    /\ r_relisted = FALSE

\* one invocation of the reconciler on the current listing
Reconcile ==
    /\ r_calls = 0 \/ r_relisted
    /\ r_rows' = reconcile(r_facts, r_filing)
    /\ r_first' = IF r_calls = 0 THEN reconcile(r_facts, r_filing) ELSE r_first
    /\ r_calls' = r_calls + 1
    /\ r_relisted' = FALSE
    /\ UNCHANGED <<r_facts, r_filing, mktVars, batchVars, auxVars>>

\* the companyfacts document lists the same facts in another order
Relist ==
    /\ r_calls = 1 /\ ~r_relisted
    /\ \E p \in Permutations(1..Len(r_facts)) :
          /\ \E k \in 1..Len(r_facts) : p[k] # k
          /\ r_facts' = [k \in 1..Len(r_facts) |-> r_facts[p[k]]]
    /\ r_relisted' = TRUE
    /\ UNCHANGED <<r_filing, r_rows, r_first, r_calls, mktVars, batchVars, auxVars>>

\* ------------------------------------------------------------------------
\* The SEC stage of one ticker, an attempt at a time: get_latest_filing_info
\* (lines 142-157) calls get_submission_data_for_ticker, and
\* get_latest_filing_facts (lines 211-266) then calls get_facts_json; both
\* fetches are wrapped in @retry(wait=wait_exponential(multiplier=1, max=10),
\* stop=stop_after_attempt(3)), which retries on every exception.
\* ------------------------------------------------------------------------
STOP_AFTER_ATTEMPT == 3

\* a retry that stops one attempt later
stop_after_four(attempt) == attempt >= 4

\* tenacity.stop_after_attempt: no further attempt after this one
stop_after_attempt(attempt) == attempt >= STOP_AFTER_ATTEMPT

\* how one attempt can end: without a CIK the function raises ValueError
\* before it builds the URL (line 135, line 166); with one, requests.get and
\* raise_for_status either pass or raise
AttemptOutcomes(cik) == IF cik THEN {"ok", "http_error", "timeout"} ELSE {"no_cik"}

NetworkKinds == {"ok", "http_error", "timeout"}

\* what a fetched companyfacts document leads to: no us-gaap taxonomy
\* (line 177), only forward-dated facts (line 224), no fact of a mapped tag
\* (line 255), or reconciled rows
FactsDocuments == {"no_us_gaap", "all_future", "no_mapped", "rows"}

SecIdle ==
    /\ s_cik = FALSE
    /\ s_pc = "done"
    /\ s_attempt = 1
    /\ s_waiting = FALSE
    /\ s_log = <<>>
    /\ s_result = "skipped"

SecInit ==
    /\ s_cik \in BOOLEAN
    /\ s_pc = "submissions"
    /\ s_attempt = 1
    /\ s_waiting = FALSE
    /\ s_log = <<>>
    /\ s_result = "pending"

\* one attempt of the fetch in progress
SecAttempt ==
    /\ s_pc \in {"submissions", "facts"} /\ ~s_waiting
    /\ \E kind \in AttemptOutcomes(s_cik) :
          /\ s_log' = Append(s_log, [fetch |-> s_pc, attempt |-> s_attempt, kind |-> kind])
          /\ IF kind # "ok"
             THEN IF stop_after_attempt(s_attempt)
                  THEN \* RetryError, caught at line 155 or line 264: empty frame
                       /\ s_pc' = "done" /\ s_result' = "skipped"
                       /\ UNCHANGED <<s_attempt, s_waiting>>
                  ELSE /\ s_waiting' = TRUE
                       /\ UNCHANGED <<s_pc, s_attempt, s_result>>
             ELSE IF s_pc = "submissions"
                  THEN \E has_filing \in BOOLEAN :
                          IF has_filing
                          THEN /\ s_pc' = "facts" /\ s_attempt' = 1
                               /\ UNCHANGED <<s_waiting, s_result>>
                          ELSE \* line 149: no 10-K/10-Q, (None, None, None)
                               /\ s_pc' = "done" /\ s_result' = "skipped"
                               /\ UNCHANGED <<s_attempt, s_waiting>>
                  ELSE \E doc \in FactsDocuments :
                          /\ s_pc' = "done"
                          /\ s_result' = IF doc = "rows" THEN "record" ELSE "skipped"
                          /\ UNCHANGED <<s_attempt, s_waiting>>
    /\ UNCHANGED <<s_cik, apiVars, extVars, recVars, mktVars, batchVars>>

\* the exponential wait tenacity sleeps before the next attempt
SecBackoff ==
    /\ s_waiting
    /\ s_waiting' = FALSE
    /\ s_attempt' = s_attempt + 1
    /\ s_log' = Append(s_log, [fetch |-> s_pc, attempt |-> s_attempt, kind |-> "wait"])
    /\ UNCHANGED <<s_cik, s_pc, s_result, apiVars, extVars, recVars, mktVars, batchVars>>

\* ------------------------------------------------------------------------
\* The validate_stock endpoints: app/api/greeter.py (lines 283-312, with
\* extract_stock_info, lines 129-182) and app/api/agent0.py (lines 10-21, with
\* validate_stock of app/services/bigquery_service.py, lines 8-28).
\* A string is a sequence of words separated by blanks; a word is
\* [base, case]: its letters in lower case, and how it is written ("upper":
\* all capitals, "lower", or "title": capitalised).
\* ------------------------------------------------------------------------
Word(base, case) == [base |-> base, case |-> case]

\* len(word)
WordLen == [amzn |-> 4, amazon |-> 6, aapl |-> 4, apple |-> 5, invalid |-> 7]

\* str.lower(), LOWER(...)
LowerWord(w) == Word(w.base, "lower")
lower(text) == [k \in 1..Len(text) |-> LowerWord(text[k])]

\* str.isupper()
isupper(w) == w.case = "upper"

\* the S&P 500 list: Symbol and Security of the Wikipedia table, ticker and
\* company_name of the sp500_metadata table
SP500 ==
    << [ticker |-> <<Word("amzn", "upper")>>, company_name |-> <<Word("amazon", "title")>>],
       [ticker |-> <<Word("aapl", "upper")>>, company_name |-> <<Word("apple", "title")>>] >>

\* greeter.py lines 88-108: the three lookup structures of get_sp500_data
uppercase_tickers == {row.ticker[1] : row \in Range(SP500)}

ticker_lower_map(ticker_lower) ==
    LET rows == {row \in Range(SP500) : lower(row.ticker) = <<ticker_lower>>}
    IN  (CHOOSE row \in rows : TRUE).company_name

company_lower_map(company_lower) ==
    LET rows == {row \in Range(SP500) : lower(row.company_name) = company_lower}
    IN  (CHOOSE row \in rows : TRUE).ticker

\* greeter.py line 157: sorted(company_lower_map.keys(), key=len, reverse=True)
sorted_company_names ==
    << lower(SP500[1].company_name), lower(SP500[2].company_name) >>

\* re.search(r'\b' + re.escape(company_lower) + r'\b', message_lower) for a
\* one-word company name
name_in_message(company_lower, message_lower) ==
    \E k \in 1..Len(message_lower) : <<message_lower[k]>> = company_lower

NotExtracted == [found |-> FALSE, ticker |-> <<>>, company_name |-> <<>>]

\* greeter.py lines 129-182
extract_stock_info(message) ==
    LET \* lines 145-147: tokens of capitals, at most 6 letters by the pattern and
        \* at most 5 by the filter
        potential_caps_tickers ==
            SelectSeq(message, LAMBDA w : isupper(w) /\ WordLen[w.base] <= 6
                                          /\ 1 <= WordLen[w.base] /\ WordLen[w.base] <= 5)
        known == SelectSeq(potential_caps_tickers, LAMBDA w : w \in uppercase_tickers)
        message_lower == lower(message)
        named == SelectSeq(sorted_company_names,
                           LAMBDA c : name_in_message(c, message_lower))
    IN  IF known # <<>>
        THEN [found |-> TRUE, ticker |-> <<Head(known)>>,
              company_name |-> ticker_lower_map(LowerWord(Head(known)))]
        ELSE IF named # <<>>
        THEN [found |-> TRUE, ticker |-> company_lower_map(Head(named)),
              company_name |-> ticker_lower_map(LowerWord(company_lower_map(Head(named))[1]))]
        ELSE NotExtracted

\* bigquery_service.py lines 11-14 with a comparison that keeps the case
matches_row_exact(row, stock_query) ==
    row.ticker = stock_query \/ row.company_name = stock_query

\* bigquery_service.py lines 11-16:
\* WHERE LOWER(ticker) = @stock_query OR LOWER(company_name) = @stock_query,
\* with stock_query.lower() as the parameter
matches_row(row, stock_query) ==
    lower(row.ticker) = lower(stock_query) \/ lower(row.company_name) = lower(stock_query)

\* bigquery_service.py lines 8-28: the rows validate_stock may return (LIMIT 1
\* without ORDER BY returns any matching row); {} is None
validate_stock(stock_query, fault) ==
    IF fault = "backend_down" THEN {}
    ELSE {row \in Range(SP500) : matches_row(row, stock_query)}

Words == {Word(base, case) : base \in DOMAIN WordLen, case \in {"upper", "lower", "title"}}
Queries == UNION {[1..n -> Words] : n \in 1..MaxWords}

\* no Authorization header or token (firebase_auth.py lines 19-34); the S&P
\* 500 list cannot be loaded, the BigQuery job raises
Faults == {"none", "unauthorized", "backend_down"}

NoBody == [ticker |-> <<>>, company_name |-> <<>>, detail |-> "", status |-> ""]

ApiIdle ==
    /\ a_query = <<>>
    /\ a_fault = "none"
    /\ a_route = "idle"
    /\ a_status = 0
    /\ a_body = NoBody

ApiInit ==
    /\ a_query \in Queries
    /\ a_fault \in Faults
    /\ a_route = "none"
    /\ a_status = 0
    /\ a_body = NoBody

\* GET /greeter/validate_stock/{stock_query}: main.py lines 90-94 (the
\* verify_token dependency), greeter.py lines 120-126 and 283-312
GreeterValidateStock ==
    /\ a_route = "none"
    /\ a_route' = "greeter"
    /\ IF a_fault = "unauthorized"
       THEN /\ a_status' = 401
            /\ a_body' = [NoBody EXCEPT !.detail = "Missing or invalid Authorization header"]
       ELSE IF a_fault = "backend_down"
       THEN /\ a_status' = 503
            /\ a_body' = [NoBody EXCEPT !.detail = "Failed to load necessary stock data."]
       ELSE \E extracted_info \in {extract_stock_info(a_query)} :
               /\ a_status' = 200
               /\ a_body' = IF extracted_info.found
                            THEN [ticker |-> extracted_info.ticker,
                                  company_name |-> extracted_info.company_name,
                                  detail |-> "", status |-> "recognized"]
                            ELSE [NoBody EXCEPT !.status = "unrecognized"]
    /\ UNCHANGED <<a_query, a_fault, secVars, extVars, recVars, mktVars, batchVars>>

\* the agent0 handler validate_stock_api, agent0.py lines 10-21
Agent0ValidateStock ==
    /\ a_route = "none"
    /\ a_route' = "agent0"
    /\ LET results == validate_stock(a_query, a_fault)
       IN  IF results # {}
           THEN \E result \in results :
                   /\ a_status' = 200
                   /\ a_body' = [NoBody EXCEPT !.ticker = result.ticker,
                                               !.company_name = result.company_name]
           ELSE /\ a_status' = 404
                /\ a_body' = [NoBody EXCEPT !.detail = "Stock not found in S&P 500"]
    /\ UNCHANGED <<a_query, a_fault, secVars, extVars, recVars, mktVars, batchVars>>

\* ------------------------------------------------------------------------
\* get_latest_filing_info, lines 142-157. A filing of the feed is
\* [accessionNumber, form, filingDate]; filingDate is {} when the feed's text
\* is no date (pd.to_datetime(..., errors='coerce') gives NaT).
\* ------------------------------------------------------------------------
Forms == {"10-K", "10-Q", "10-Q/A", "8-K"}
FilingDates == {{}, {1}, {2}}

\* a filter on the form that takes every form containing "10-K" or "10-Q"
form_contains(form) == form \in {"10-K", "10-Q", "10-Q/A"}

\* line 148: df['form'].isin(['10-K', '10-Q'])
form_isin(form) == form \in {"10-K", "10-Q"}

relevant(df) == SelectSeq(df, LAMBDA filing : form_isin(filing.form))

\* line 153: sort_values('filingDate', ascending=False).iloc[0]: a row of the
\* latest filing date, NaT last; the default sort is not stable, so any of
\* the rows that tie may come first
first_by_filing_date(rows) ==
    LET dated == {filing \in Range(rows) : filing.filingDate # {}}
    IN  IF dated = {} THEN Range(rows)
        ELSE {filing \in dated :
                 \A other \in dated :
                    \A a \in other.filingDate : \A b \in filing.filingDate : a <= b}

\* lines 146-157: the filings get_latest_filing_info may return; {{}} stands
\* for (None, None, None)
get_latest_filing_info(df, fetched) ==
    IF ~fetched THEN {{}}
    ELSE IF relevant(df) = <<>> THEN {{}}
    ELSE {{filing} : filing \in first_by_filing_date(relevant(df))}

Feeds ==
    UNION {{[k \in 1..n |-> [accessionNumber |-> k, form |-> fs[k].form,
                             filingDate |-> fs[k].filingDate]] :
               fs \in [1..n -> [form : Forms, filingDate : FilingDates]]} :
           n \in 0..MaxFilings}

FilIdle ==
    /\ f_feed = <<>>
    /\ f_fetched = FALSE
    /\ f_pc = "idle"
    /\ f_recent = {}

FilInit ==
    /\ f_feed \in Feeds
    /\ f_fetched \in BOOLEAN
    /\ f_pc = "call"
    /\ f_recent = {}

LatestFilingInfo ==
    /\ f_pc = "call"
    /\ f_pc' = "done"
    /\ f_recent' \in get_latest_filing_info(f_feed, f_fetched)
    /\ UNCHANGED <<f_feed, f_fetched, aliasVars, sseVars, authVars, secVars, apiVars, recVars, mktVars, batchVars>>

\* ------------------------------------------------------------------------
\* The reconciler with the alias lists of standard_map in a given order
\* (lines 42-117 and 241-254): standard_map.items() yields each concept with
\* its list of aliases, and the loop selects the rows with isin(keys).
\* ------------------------------------------------------------------------
standard_map_items ==
    [c \in Range(Concepts) |->
        CASE c = "Net Income" ->
               << "NetIncomeLossAvailableToCommonStockholdersBasic",
                  "NetIncomeFromContinuingOperations",
                  "NetIncomeApplicableToCommonStockholders", "NetIncomeLoss",
                  "NetIncome" >>
          [] c = "Total Equity" ->
               << "StockholdersEquity",
                  "StockholdersEquityAttributableToParent",
                  "TotalStockholdersEquity", "ShareholdersEquity",
                  "CommonStockholdersEquity" >>
          [] c = "Total Debt" ->
               << "TotalDebt", "LongTermDebtAndCapitalLeaseObligations",
                  "DebtAndCapitalLeaseObligations", "LongTermDebt",
                  "DebtCurrent", "LongTermDebtCurrent", "ShortTermDebt",
                  "DebtInstrumentUnamortizedDiscountPremiumAndDebtIssuanceCostsNet"
                  >>
          [] c = "Current Assets" ->
               << "AssetsCurrent", "CurrentAssets" >>
          [] c = "Current Liabilities" ->
               << "LiabilitiesCurrent", "CurrentLiabilities" >>
          [] c = "Revenues" ->
               << "Revenues", "SalesRevenueNet", "RevenuesNetOfInterestExpense",
                  "TotalRevenue", "Revenue",
                  "RevenueFromContractWithCustomerExcludingAssessedTax" >>
          [] c = "Cost of Goods Sold" ->
               << "CostOfGoodsSold", "CostOfRevenue",
                  "CostOfGoodsAndServicesSold" >>
          [] c = "Earnings Per Share" ->
               << "EarningsPerShareBasic", "EarningsPerShareDiluted",
                  "EarningsPerShare", "BasicEarningsPerShare",
                  "DilutedEarningsPerShare" >>
          [] c = "Operating Cash Flow" ->
               << "NetCashProvidedByUsedInOperatingActivities",
                  "OperatingCashFlow", "CashFlowFromOperations",
                  "NetCashFromOperatingActivities",
                  "NetCashProvidedByUsedInOperatingActivitiesContinuingOperations"
                  >>
          [] c = "CapEx" ->
               << "PaymentsToAcquireProductiveAssets",
                  "PaymentsToAcquirePropertyPlantAndEquipment",
                  "CapitalExpendituresIncurredButNotYetPaid",
                  "CapitalExpenditures", "CapitalExpenditure",
                  "PurchaseOfPropertyPlantAndEquipment",
                  "InvestingCashFlowCapitalExpenditures", "AcquisitionsNet" >>]

\* a selection that prefers the aliases in list order: the rows of the first
\* alias of the list that has a row
rows_of_first_alias(df_mapped, keys) ==
    LET present == SelectSeq(keys, LAMBDA key : \E f \in Range(df_mapped) : f.fact_key = key)
    IN  IF present = <<>> THEN <<>>
        ELSE SelectSeq(df_mapped, LAMBDA f : f.fact_key = Head(present))

\* line 243: df_mapped[df_mapped['fact_key'].isin(keys)]
rows_isin(df_mapped, keys) ==
    SelectSeq(df_mapped, LAMBDA f : \E k \in 1..Len(keys) : keys[k] = f.fact_key)

\* lines 241-254 over the items of a map from concepts to alias lists
RECURSIVE result_rows_of(_, _, _)
result_rows_of(items, df_mapped, friendlies) ==
    IF friendlies = <<>> THEN <<>>
    ELSE LET friendly == Head(friendlies)
             sub == rows_isin(df_mapped, items[friendly])
         IN  (IF sub = <<>> THEN <<>>
              ELSE << [mapping |-> friendly] @@ row_max(sub) >>)
             \o result_rows_of(items, df_mapped, Tail(friendlies))

\* lines 219-257 with the map given
reconcile_with(items, facts, filing_date) ==
    LET df_facts == SelectSeq(facts, NotFuture)
        keys_allowed == UNION {Range(items[c]) : c \in Range(Concepts)}
    IN  IF df_facts = <<>> THEN <<>>
        ELSE LET df_mapped == SelectSeq(df_official(df_facts, filing_date),
                                     LAMBDA f : f.fact_key \in keys_allowed)
             IN  result_rows_of(items, df_mapped, Concepts)

\* the facts of an issuer that reports one concept under every alias of it
AKeys == Range(standard_map_items["Cost of Goods Sold"])

AliasLists ==
    UNION {[1..n -> [fact_key : AKeys, value : RValues, start : {{}},
                     end : {{1}, {2}}, filed : RFiled]] : n \in 0..MaxFacts}

ShuffledConcepts == {"Cost of Goods Sold", "Current Assets"}

AliasIdle ==
    /\ p_concept = ""
    /\ p_keys = <<>>

AliasInit ==
    /\ r_facts \in AliasLists
    /\ r_filing \in RFiled
    /\ r_rows = <<>>
    /\ r_first = <<>>
    /\ r_calls = 0
    /\ r_relisted = FALSE

\* the first invocation, with standard_map as written
ReconcileAsWritten ==
    /\ r_calls = 0
    /\ r_rows' = reconcile_with(standard_map_items, r_facts, r_filing)
    /\ r_first' = reconcile_with(standard_map_items, r_facts, r_filing)
    /\ r_calls' = 1
    /\ UNCHANGED <<r_facts, r_filing, r_relisted, aliasVars, filVars, sseVars, authVars, secVars,
                   apiVars,
                   mktVars, batchVars>>

\* a second invocation on the same facts, after the alias list of one concept
\* was put in another order
ReconcileShuffled ==
    /\ r_calls = 1 /\ p_concept = ""
    /\ \E c \in ShuffledConcepts :
          \E p \in Permutations(1..Len(standard_map_items[c])) :
             /\ \E k \in 1..Len(standard_map_items[c]) : p[k] # k
             /\ p_concept' = c
             /\ p_keys' = [k \in 1..Len(standard_map_items[c]) |-> standard_map_items[c][p[k]]]
             /\ r_rows' = reconcile_with([standard_map_items EXCEPT ![c] = p_keys'],
                                         r_facts, r_filing)
    /\ r_calls' = 2
    /\ UNCHANGED <<r_facts, r_filing, r_first, r_relisted, filVars, sseVars, authVars, secVars,
                   apiVars,
                   mktVars, batchVars>>

\* ------------------------------------------------------------------------
\* The background task and the SSE streams of one task_id (greeter.py):
\* run_analysis_and_synthesis, lines 189-239, and event_generator, lines
\* 244-277. The coroutines run on one event loop: a step runs from one await
\* or yield to the next without interruption.
\* ------------------------------------------------------------------------
\* line 247, max_wait_cycles = 180, scaled down
max_wait_cycles == 3

Streams == 1..NumStreams

timeout_result == [status |-> "error", data |-> "Analysis timed out waiting for results."]

\* how the GET /quantative/analyze_stock/{ticker} may end: 200 with a dict
\* under "quantitative_analysis", 200 with something else there, 200 with a
\* body that is no JSON object, another status, httpx.RequestError
QuantOutcomes == {"ok_dict", "ok_not_dict", "ok_bad_json", "non_200", "request_error"}

\* how the POST /synthesizer/synthesize may end
SynthOutcomes == {"ok", "ok_bad_json", "non_200", "request_error"}

\* what the calls and the reading of their responses raise inside the try,
\* "" when nothing is raised: ValueError at line 208, a JSON decoding error or
\* an AttributeError from .json().get(...), httpx.RequestError
raised_by(outcome) ==
    CASE outcome \in {"ok_dict", "ok", "non_200"} -> ""
      [] outcome = "ok_not_dict" -> "ValueError"
      [] outcome = "ok_bad_json" -> "JSONDecodeError"
      [] outcome = "request_error" -> "RequestError"

\* a handler with the clause for httpx.RequestError only
except_request_error_only(exception) ==
    IF exception = "RequestError" THEN "Network error connecting to analysis services"
    ELSE "uncaught"

\* lines 231-236: except httpx.RequestError, then except Exception
except_clauses(exception) ==
    IF exception = "RequestError" THEN "Network error connecting to analysis services"
    ELSE "An unexpected error occurred"

\* lines 200-208 and 228-238: the entry stored when the quantitative step did
\* not pass; status keeps its initial value "error"
entry_after_quant(outcome) ==
    [status |-> "error",
     data |-> IF raised_by(outcome) # "" THEN except_clauses(raised_by(outcome))
              ELSE "Quantitative analysis step failed"]

\* lines 210-238: the entry stored after the synthesis call
entry_after_synth(outcome) ==
    [status |-> IF outcome = "ok" THEN "completed" ELSE "error",
     data |-> IF raised_by(outcome) # "" THEN except_clauses(raised_by(outcome))
              ELSE IF outcome = "ok" THEN "synthesis"
              ELSE "Synthesis step failed"]

\* a read of the entry that leaves it in the store
store_after_get(store) == store

\* line 253: results_store.pop(task_id)
store_after_pop(store) == {}

NewStream == [pc |-> "unopened", cycles_waited |-> 0, polls |-> 0, events |-> <<>>]

\* a loop that goes round once more
loop_goes_on_one_more(cycles_waited) == cycles_waited <= max_wait_cycles

\* line 251: while cycles_waited < max_wait_cycles
loop_goes_on(cycles_waited) == cycles_waited < max_wait_cycles

\* lines 250-271: event_generator from the head of the while loop to its next
\* yield or await; the result is [stream, store]
event_generator_step(stream, store) ==
    IF loop_goes_on(stream.cycles_waited)
    THEN IF store # {}
         THEN [stream |-> [stream EXCEPT !.pc = "sent_result",
                                         !.polls = @ + 1,
                                         !.events = Append(@, CHOOSE e \in store : TRUE)],
               store |-> store_after_pop(store)]
         ELSE [stream |-> [stream EXCEPT !.pc = "sleeping",
                                         !.polls = @ + 1,
                                         !.cycles_waited = @ + 1],
               store |-> store]
    ELSE [stream |-> [stream EXCEPT !.pc = "sent_timeout",
                                    !.events = Append(@, timeout_result)],
          store |-> store]

SseIdle ==
    /\ results_store = {}
    /\ t_pc = "idle"
    /\ t_quant = ""
    /\ t_synth = ""
    /\ t_calls = <<>>
    /\ t_writes = <<>>
    /\ g_streams = <<>>

\* chat has added the background task (lines 358-359); no stream is open yet
SseInit ==
    /\ results_store = {}
    /\ t_pc = "scheduled"
    /\ t_quant = ""
    /\ t_synth = ""
    /\ t_calls = <<>>
    /\ t_writes = <<>>
    /\ g_streams = [s \in Streams |-> NewStream]

OtherThanSse == <<filVars, aliasVars, authVars, secVars, apiVars, recVars, mktVars, batchVars>>

\* lines 189-200: the task starts and awaits the quantitative call
TaskStart ==
    /\ t_pc = "scheduled"
    /\ t_pc' = "quant"
    /\ t_calls' = Append(t_calls, "quant")
    /\ UNCHANGED <<results_store, t_quant, t_synth, t_writes, g_streams, OtherThanSse>>

\* lines 200-213 and 228-238: the quantitative call ends; the task goes on to
\* the synthesis call or stores its entry
TaskQuantReturns ==
    /\ t_pc = "quant"
    /\ \E outcome \in QuantOutcomes :
          /\ t_quant' = outcome
          /\ IF outcome = "ok_dict"
             THEN /\ t_pc' = "synth"
                  /\ t_calls' = Append(t_calls, "synth")
                  /\ UNCHANGED <<results_store, t_writes>>
             ELSE IF entry_after_quant(outcome).data = "uncaught"
             THEN /\ t_pc' = "raised"
                  /\ UNCHANGED <<results_store, t_writes, t_calls>>
             ELSE /\ t_pc' = "done"
                  /\ results_store' = {entry_after_quant(outcome)}
                  /\ t_writes' = Append(t_writes, entry_after_quant(outcome))
                  /\ UNCHANGED t_calls
    /\ UNCHANGED <<t_synth, g_streams, OtherThanSse>>

\* lines 213-238: the synthesis call ends and the task stores its entry
TaskSynthReturns ==
    /\ t_pc = "synth"
    /\ \E outcome \in SynthOutcomes :
          /\ t_synth' = outcome
          /\ IF entry_after_synth(outcome).data = "uncaught"
             THEN /\ t_pc' = "raised"
                  /\ UNCHANGED <<results_store, t_writes>>
             ELSE /\ t_pc' = "done"
                  /\ results_store' = {entry_after_synth(outcome)}
                  /\ t_writes' = Append(t_writes, entry_after_synth(outcome))
    /\ UNCHANGED <<t_quant, t_calls, g_streams, OtherThanSse>>

\* lines 387-391 and 244-260: a client opens a stream on the task_id and the
\* generator runs to its first yield or sleep
StreamOpen(s) ==
    /\ g_streams[s].pc = "unopened"
    /\ \E step \in {event_generator_step(g_streams[s], results_store)} :
          /\ g_streams' = [g_streams EXCEPT ![s] = step.stream]
          /\ results_store' = step.store
    /\ UNCHANGED <<taskVars, OtherThanSse>>

\* lines 250-271: asyncio.sleep(2) is over, the loop goes round
StreamWake(s) ==
    /\ g_streams[s].pc = "sleeping"
    /\ \E step \in {event_generator_step(g_streams[s], results_store)} :
          /\ g_streams' = [g_streams EXCEPT ![s] = step.stream]
          /\ results_store' = step.store
    /\ UNCHANGED <<taskVars, OtherThanSse>>

\* lines 255-256 and 269-271: the generator is resumed after its yield
StreamResume(s) ==
    /\ g_streams[s].pc \in {"sent_result", "sent_timeout"}
    /\ g_streams' = [g_streams EXCEPT ![s].pc = "done"]
    /\ results_store' = IF g_streams[s].pc = "sent_timeout" /\ results_store # {}
                        THEN store_after_pop(results_store) ELSE results_store
    /\ UNCHANGED <<taskVars, OtherThanSse>>

\* lines 273-277: the client disconnects and the generator is cancelled at
\* its await or yield
StreamCancel(s) ==
    /\ g_streams[s].pc \in {"sleeping", "sent_result", "sent_timeout"}
    /\ g_streams' = [g_streams EXCEPT ![s].pc = "cancelled"]
    /\ results_store' = IF results_store # {} THEN store_after_pop(results_store)
                        ELSE results_store
    /\ UNCHANGED <<taskVars, OtherThanSse>>

StreamsOpen == \E s \in Streams : StreamOpen(s)
StreamsWake == \E s \in Streams : StreamWake(s)
StreamsResume == \E s \in Streams : StreamResume(s)
StreamsCancel == \E s \in Streams : StreamCancel(s)

\* ------------------------------------------------------------------------
\* A request to the application: main.py lines 90-111 (the routers, each
\* included with dependencies=[Depends(verify_token)], and the root route)
\* and firebase_auth.py lines 13-33 (verify_token).
\* ------------------------------------------------------------------------
Routes ==
    {"/greeter/validate_stock", "/greeter/stock_suggestions", "/greeter/chat",
     "/greeter/stream", "/quantative/analyze_stock", "/synthesizer/synthesize", "/"}

\* main.py lines 90-104: the routes of the three routers
protected(route) == route # "/"

NoHeader == [present |-> FALSE, scheme |-> "", token |-> ""]

\* the Authorization header: none, or a scheme followed by a token
Headers ==
    {NoHeader}
    \cup [present : {TRUE}, scheme : {"Bearer ", "bearer ", "Basic "},
          token : {"", "expired", "valid"}]

\* firebase_auth.py line 19: not auth_header or not auth_header.startswith("Bearer ")
header_refused(header) == ~header.present \/ header.scheme # "Bearer "

\* firebase_auth.py lines 26-27: auth.verify_id_token(id_token) returns the
\* decoded claims, "" standing for the exception it raises
verify_id_token(id_token) == IF id_token = "valid" THEN "claims" ELSE ""

\* a dependency that looks at the header only
verify_token_header_only(header) ==
    IF header_refused(header) THEN [status |-> 401, user |-> ""]
    ELSE [status |-> 0, user |-> "claims"]

\* firebase_auth.py lines 13-33: the 401 raised, or the claims attached
verify_token(header) ==
    IF header_refused(header) THEN [status |-> 401, user |-> ""]
    ELSE IF verify_id_token(header.token) = "" THEN [status |-> 401, user |-> ""]
    ELSE [status |-> 0, user |-> verify_id_token(header.token)]

\* what the handler of a route starts or calls: the background task (greeter.py
\* lines 358-359), the Gemini model, Cloud Storage, the SSE generator
handler_effects(route) ==
    CASE route = "/greeter/chat" -> {{"background_task"}, {"llm_call"}}
      [] route = "/greeter/validate_stock" -> {{}, {"llm_call"}}
      [] route = "/greeter/stock_suggestions" -> {{"llm_call"}}
      [] route = "/greeter/stream" -> {{"event_generator"}}
      [] route = "/quantative/analyze_stock" -> {{"storage_call"}, {"storage_call", "llm_call"}}
      [] route = "/synthesizer/synthesize" -> {{"storage_call"}, {"storage_call", "llm_call"}}
      [] OTHER -> {{}}

AuthIdle ==
    /\ q_route = ""
    /\ q_header = NoHeader
    /\ q_pc = "idle"
    /\ q_status = 0
    /\ q_user = ""
    /\ q_effects = {}

AuthInit ==
    /\ q_route \in Routes
    /\ q_header \in Headers
    /\ q_pc = "received"
    /\ q_status = 0
    /\ q_user = ""
    /\ q_effects = {}

OtherThanAuth == <<filVars, aliasVars, sseVars, secVars, apiVars, recVars, mktVars, batchVars>>

\* the dependencies of the route are solved before its handler is called
SolveDependencies ==
    /\ q_pc = "received"
    /\ IF protected(q_route)
       THEN \E answer \in {verify_token(q_header)} :
               /\ q_pc' = IF answer.status = 401 THEN "rejected" ELSE "verified"
               /\ q_status' = answer.status
               /\ q_user' = answer.user
       ELSE /\ q_pc' = "verified"
            /\ UNCHANGED <<q_status, q_user>>
    /\ UNCHANGED <<q_route, q_header, q_effects, OtherThanAuth>>

\* the handler of the route runs
RunHandler ==
    /\ q_pc = "verified"
    /\ q_pc' = "handled"
    /\ q_effects' \in {effects \cup {"handler"} : effects \in handler_effects(q_route)}
    /\ q_status' \in {200, 404, 500}
    /\ UNCHANGED <<q_route, q_header, q_user, OtherThanAuth>>

ExtIdle == FilIdle /\ AliasIdle /\ SseIdle /\ AuthIdle

AuxIdle == SecIdle /\ ApiIdle /\ ExtIdle

\* ------------------------------------------------------------------------
\* main, lines 435-499: the batch over the ticker list
\* ------------------------------------------------------------------------
Tickers == 1..NumTickers

\* the table a previous run left behind
PreviousTable ==
    << [ticker |-> 1, as_of_date |-> 0, market_price |-> NaN, market_cap |-> NaN,
        dividend |-> NaN, ROE |-> NaN, Debt_to_Equity |-> NaN, Current_Ratio |-> NaN,
        Gross_Margin |-> NaN, P_E_Ratio |-> NaN, FCF_Yield |-> NaN] >>

\* The companyfacts document of a ticker of the batch: one fact per concept,
\* filed with the latest filing, changed in at most one place: a concept not
\* reported ("drop"), reported for a later period end ("shift"), or
\* reported as 0 ("zero"), or reported with a string that is no number as its
\* value ("text"); or every fact of the document lacks its 'val' ("null").
BatchFilingDate == 3

\* the reportDate of that filing in the submissions document (lines 128-140):
\* get_latest_filing_info returns accessionNumber, form and filingDate only
BatchReportDate == 1

BaseValue ==
    [c \in Range(Concepts) |->
        CASE c = "Net Income" -> 6 [] c = "Total Equity" -> 3 [] c = "Total Debt" -> 9
          [] c = "Current Assets" -> 8 [] c = "Current Liabilities" -> 4
          [] c = "Revenues" -> 10 [] c = "Cost of Goods Sold" -> 4
          [] c = "Earnings Per Share" -> 2 [] c = "Operating Cash Flow" -> 5
          [] c = "CapEx" -> 1]

\* two of the eight concepts read with merged[...] and the two read with
\* merged.get(..., 0.0)
DropConcepts == {"Net Income", "Total Equity", "Cost of Goods Sold", "CapEx"}
ZeroConcepts == {"Total Equity", "Current Liabilities", "Revenues", "Earnings Per Share"}
ShiftConcepts == {"Current Assets"}
TextConcepts == {"Net Income", "CapEx"}

Changes ==
    {[kind |-> "none", concept |-> "Net Income"]}
    \cup [kind : {"drop"}, concept : DropConcepts]
    \cup [kind : {"zero"}, concept : ZeroConcepts]
    \cup [kind : {"shift"}, concept : ShiftConcepts]
    \cup [kind : {"text"}, concept : TextConcepts]
    \cup {[kind |-> "null", concept |-> "every"]}

BatchFacts(change) ==
    LET fact(c) ==
            [fact_key |-> CHOOSE k \in standard_map[c] : TRUE,
             value |-> IF change.kind = "zero" /\ change.concept = c THEN Num(0)
                       ELSE IF change.kind = "text" /\ change.concept = c THEN Text
                       ELSE IF change.kind = "null" THEN NaN
                       ELSE Num(BaseValue[c]),
             start |-> {},
             end |-> IF change.kind = "shift" /\ change.concept = c THEN {2} ELSE {1},
             filed |-> BatchFilingDate]
        all == [k \in 1..Len(Concepts) |-> fact(Concepts[k])]
    IN  IF change.kind = "drop"
        THEN SelectSeq(all, LAMBDA f : f.fact_key \notin standard_map[change.concept])
        ELSE all

\* how the SEC stage of a ticker can end before any fact is reconciled:
\* no CIK (line 135), submissions not fetched (line 138), no 10-K/10-Q
\* (line 149), facts not fetched (line 169), no us-gaap taxonomy (line 178)
SecFailures == {"no_cik", "no_submissions", "no_filing", "no_facts", "no_us_gaap"}

\* the market data provider of a (ticker, end) pair: no bar on any day, or a
\* bar and a complete snapshot on every day
NoBars == [k \in 0..MAX_DAYS_FORWARD |->
             [hist |-> "empty", close |-> 7, nfail |-> 3, info |-> EmptyInfo]]
Bars == [k \in 0..MAX_DAYS_FORWARD |->
           [hist |-> "price", close |-> 7, nfail |-> 0,
            info |-> [sharesOutstanding |-> Value(3), marketCap |-> Value(40),
                      dividendRate |-> Value(1)]]]
BatchProviders == [no_bars |-> NoBars, bars |-> Bars]

BatchIdle ==
    /\ pc = "done"
    /\ b_i = 0
    /\ b_status = <<>>
    /\ sec_frames = <<>>
    /\ b_needed = <<>>
    /\ b_j = 0
    /\ market_frames = <<>>
    /\ b_exit = "idle"
    /\ table = <<>>
    /\ b_run = 0
    /\ b_first = [exit |-> "idle", table |-> <<>>]
    /\ b_sec_in = <<>>
    /\ b_mkt_in = <<>>

BatchInit ==
    /\ pc = "sec"
    /\ b_i = 1
    /\ b_status = [t \in Tickers |-> "pending"]
    /\ sec_frames = <<>>
    /\ b_needed = <<>>
    /\ b_j = 1
    /\ market_frames = <<>>
    /\ b_exit = "running"
    /\ table = PreviousTable
    /\ b_run = 1
    /\ b_first = [exit |-> "running", table |-> PreviousTable]
    /\ b_sec_in = [t \in Tickers |-> [kind |-> "pending", concept |-> ""]]
    /\ b_mkt_in = <<>>

\* lines 439-454: the SEC stage of the next ticker fails; the ticker is skipped
SecSkip ==
    /\ pc = "sec" /\ b_i <= NumTickers
    /\ \E why \in SecFailures :
          LET answer == [kind |-> "fail", concept |-> why]
          IN  /\ b_sec_in' = [b_sec_in EXCEPT ![b_i] = answer]
              /\ b_status' = [b_status EXCEPT ![b_i] = why]
    /\ b_i' = b_i + 1
    /\ UNCHANGED <<pc, sec_frames, b_needed, b_j, market_frames, b_exit, table, b_run, b_first,
                   b_mkt_in, recVars, mktVars, auxVars>>

\* lines 444-453: the frame of one ticker, df_facts["ticker"] = ticker
with_ticker(ticker, df_facts) ==
    [k \in 1..Len(df_facts) |-> [ticker |-> ticker] @@ df_facts[k]]

ticker_frame(ticker, change) ==
    with_ticker(ticker, reconcile(BatchFacts(change), BatchFilingDate))

\* lines 439-454: the facts of the next ticker are fetched and reconciled
SecTicker ==
    /\ pc = "sec" /\ b_i <= NumTickers
    /\ \E change \in Changes :
          LET rows == ticker_frame(b_i, change)
          IN  /\ b_sec_in' = [b_sec_in EXCEPT ![b_i] = change]
              /\ sec_frames' = sec_frames \o rows
              /\ b_status' = [b_status EXCEPT ![b_i] =
                                 IF rows = <<>> THEN "no_rows" ELSE "ok"]
    /\ b_i' = b_i + 1
    /\ UNCHANGED <<pc, b_needed, b_j, market_frames, b_exit, table, b_run, b_first, b_mkt_in,
                   recVars, mktVars, auxVars>>

\* line 463: the unique (ticker, end) pairs in order of first appearance
RECURSIVE needed(_)
needed(sec_df) ==
    IF sec_df = <<>> THEN <<>>
    ELSE LET pair == [ticker |-> Head(sec_df).ticker, end |-> Head(sec_df).end]
         IN  <<pair>> \o needed(SelectSeq(Tail(sec_df),
                                LAMBDA r : ~(r.ticker = pair.ticker /\ r.end = pair.end)))

\* lines 455-463
EndSecLoop ==
    /\ pc = "sec" /\ b_i > NumTickers
    /\ IF sec_frames = <<>>
       THEN pc' = "done" /\ b_exit' = "no_sec_data" /\ b_needed' = b_needed
       ELSE pc' = "market" /\ b_exit' = b_exit /\ b_needed' = needed(sec_frames)
    /\ UNCHANGED <<b_i, b_status, sec_frames, b_j, market_frames, table, b_run, b_first,
                   b_sec_in, b_mkt_in, recVars, mktVars, auxVars>>

\* lines 466-475: market data of the next (ticker, end) pair
FetchMarket ==
    /\ pc = "market" /\ b_j <= Len(b_needed)
    /\ \E provider \in DOMAIN BatchProviders :
          LET row == b_needed[b_j]
              data_dict == fetch_single_ticker_market_data(row.ticker, row.end,
                                                           BatchProviders[provider])
          IN  /\ b_mkt_in' = Append(b_mkt_in, provider)
              /\ market_frames' = IF data_dict.found
                                   THEN Append(market_frames, data_dict)
                                   ELSE market_frames
    /\ b_j' = b_j + 1
    /\ UNCHANGED <<pc, b_i, b_status, sec_frames, b_needed, b_exit, table, b_run, b_first,
                   b_sec_in, recVars, mktVars, auxVars>>

\* pandas_gbq.to_gbq(..., if_exists='append')
to_gbq_append(existing, final_df) == existing \o final_df

\* lines 491-497: pandas_gbq.to_gbq(final_df, ..., if_exists='replace')
to_gbq(existing, final_df) == final_df

\* a run that empties the destination table whenever it does not upload
persisted_table_cleared(exit, existing, final_df) ==
    IF exit = "uploaded" THEN to_gbq(existing, final_df) ELSE <<>>

\* lines 476-499: the destination table after the run; every return before
\* line 491 leaves it as it was
persisted_table(exit, existing, final_df) ==
    IF exit = "uploaded" THEN to_gbq(existing, final_df) ELSE existing

\* lines 476-487: how main ends, and the frame it uploads
run_outcome(sec_df, market_dicts) ==
    IF market_dicts = <<>> THEN [exit |-> "no_market_data", rows |-> <<>>]
    ELSE LET final_df == calculate_ratios(sec_df, market_dicts)
         IN  IF final_df.raised THEN [exit |-> "raised", rows |-> <<>>]
             ELSE IF final_df.rows = <<>> THEN [exit |-> "empty", rows |-> <<>>]
             ELSE [exit |-> "uploaded", rows |-> final_df.rows]

\* lines 476-499: ratios and upload
Finish ==
    /\ pc = "market" /\ b_j > Len(b_needed)
    /\ pc' = "done"
    /\ \E outcome \in {run_outcome(sec_frames, market_frames)} :
          /\ b_exit' = outcome.exit
          /\ table' = persisted_table(outcome.exit, table, outcome.rows)
    /\ UNCHANGED <<b_i, b_status, sec_frames, b_needed, b_j, market_frames, b_run, b_first,
                   b_sec_in, b_mkt_in, recVars, mktVars, auxVars>>

\* lines 438-459 as a whole: the frames of all tickers from `ticker` on,
\* given what the SEC answers for each
RECURSIVE sec_stage(_, _)
sec_stage(answers, ticker) ==
    IF ticker > NumTickers THEN <<>>
    ELSE (IF answers[ticker].kind = "fail" THEN <<>>
          ELSE ticker_frame(ticker, answers[ticker]))
         \o sec_stage(answers, ticker + 1)

\* lines 462-475 as a whole: the market dicts of the pairs from position j on
RECURSIVE market_stage(_, _, _)
market_stage(pairs, providers, j) ==
    IF j > Len(pairs) THEN <<>>
    ELSE LET data_dict == fetch_single_ticker_market_data(
                              pairs[j].ticker, pairs[j].end, BatchProviders[providers[j]])
         IN  (IF data_dict.found THEN <<data_dict>> ELSE <<>>)
             \o market_stage(pairs, providers, j + 1)

\* lines 455-487 as a whole, from the collected SEC frame on
whole_run_from(sec_df, pairs, market_dicts) ==
    [sec_df |-> sec_df, pairs |-> pairs, market_dicts |-> market_dicts]
    @@ run_outcome(sec_df, market_dicts)

whole_run_pairs(sec_df, pairs, providers) ==
    whole_run_from(sec_df, pairs, market_stage(pairs, providers, 1))

whole_run(sec_df, providers) ==
    IF sec_df = <<>>
    THEN [sec_df |-> <<>>, pairs |-> <<>>, market_dicts |-> <<>>,
          exit |-> "no_sec_data", rows |-> <<>>]
    ELSE whole_run_pairs(sec_df, needed(sec_df), providers)

\* main is invoked again (the job runs the script anew) and runs to its end
\* against the same upstream answers; the destination table is the one the
\* first run left
Rerun ==
    /\ pc = "done" /\ b_run = 1
    /\ b_run' = 2
    /\ b_first' = [exit |-> b_exit, table |-> table]
    /\ \E sec_df \in {sec_stage(b_sec_in, 1)} :
          \E run \in {whole_run(sec_df, b_mkt_in)} :
             /\ sec_frames' = run.sec_df
             /\ b_needed' = run.pairs
             /\ market_frames' = run.market_dicts
             /\ b_exit' = run.exit
             /\ table' = persisted_table(run.exit, table, run.rows)
    /\ UNCHANGED <<pc, b_i, b_status, b_j, b_sec_in, b_mkt_in, recVars, mktVars, auxVars>>

Init == BatchInit /\ RecIdle /\ MktIdle /\ AuxIdle
Next == SecSkip \/ SecTicker \/ EndSecLoop \/ FetchMarket \/ Finish \/ Rerun
Spec == Init /\ [][Next]_vars

InitReconcile == RecInit /\ MktIdle /\ BatchIdle /\ AuxIdle
NextReconcile == Reconcile
SpecReconcile == InitReconcile /\ [][NextReconcile]_vars

InitExtract == ExtractInit /\ MktIdle /\ BatchIdle /\ AuxIdle
NextExtract == Reconcile
SpecExtract == InitExtract /\ [][NextExtract]_vars

NextRelist == Reconcile \/ Relist
SpecRelist == InitReconcile /\ [][NextRelist]_vars

InitMarket == MktInit /\ RecIdle /\ BatchIdle /\ AuxIdle
NextMarket == ReturnOnNaT \/ TryDate
SpecMarket == InitMarket /\ [][NextMarket]_vars

InitApi == ApiInit /\ SecIdle /\ ExtIdle /\ RecIdle /\ MktIdle /\ BatchIdle
NextApi == GreeterValidateStock \/ Agent0ValidateStock
SpecApi == InitApi /\ [][NextApi]_vars

InitFiling == FilInit /\ AliasIdle /\ SseIdle /\ AuthIdle /\ SecIdle /\ ApiIdle /\ RecIdle /\ MktIdle /\ BatchIdle
NextFiling == LatestFilingInfo
SpecFiling == InitFiling /\ [][NextFiling]_vars

InitAlias == AliasInit /\ AliasIdle /\ FilIdle /\ SseIdle /\ AuthIdle /\ SecIdle /\ ApiIdle /\ MktIdle /\ BatchIdle
NextAlias == ReconcileAsWritten \/ ReconcileShuffled
SpecAlias == InitAlias /\ [][NextAlias]_vars

InitSse == SseInit /\ FilIdle /\ AliasIdle /\ AuthIdle /\ SecIdle /\ ApiIdle /\ RecIdle /\ MktIdle /\ BatchIdle
NextSse ==
    \/ TaskStart
    \/ TaskQuantReturns
    \/ TaskSynthReturns
    \/ StreamsOpen
    \/ StreamsWake
    \/ StreamsResume
    \/ StreamsCancel
SpecSse == InitSse /\ [][NextSse]_vars

InitAuth == AuthInit /\ FilIdle /\ AliasIdle /\ SseIdle /\ SecIdle /\ ApiIdle /\ RecIdle /\ MktIdle /\ BatchIdle
NextAuth == SolveDependencies \/ RunHandler
SpecAuth == InitAuth /\ [][NextAuth]_vars

InitSecFetch == SecInit /\ ApiIdle /\ ExtIdle /\ RecIdle /\ MktIdle /\ BatchIdle
NextSecFetch == SecAttempt \/ SecBackoff
SpecSecFetch == InitSecFetch /\ [][NextSecFetch]_vars

\* ------------------------------------------------------------------------
\* Properties of the reconciler
\* ------------------------------------------------------------------------
\* the facts of the listing that may supply concept c: not forward-dated,
\* tagged with an alias of c, and filed on the target filing date (on the
\* latest filed date of the listing when nothing was filed on that date)
UsableFacts == {f \in Range(r_facts) : f.end # {} /\ \A e \in f.end : e <= Today}

ScopeFiled ==
    IF \E f \in UsableFacts : f.filed = r_filing THEN r_filing
    ELSE SetMax({f.filed : f \in UsableFacts})

Candidates(c) ==
    {f \in UsableFacts : f.fact_key \in standard_map[c] /\ f.filed = ScopeFiled}

LatestEnd(c) == {f \in Candidates(c) : \A g \in Candidates(c) : g.end = f.end
                                          \/ (\A a \in g.end : \A b \in f.end : a < b)}

RowsOf(c) == {k \in 1..Len(r_rows) : r_rows[k].mapping = c}

\* C2: among the candidates of a concept that share the maximum period end,
\* the row selected has the latest period start; a candidate without a start
\* is selected only when no candidate with that period end has a start.
C2_TieBreakLatestStart ==
    r_calls >= 1 =>
        \A c \in Range(Concepts) :
            Candidates(c) # {} =>
                \E k \in RowsOf(c) :
                    /\ r_rows[k].end \in {f.end : f \in LatestEnd(c)}
                    /\ \A f \in LatestEnd(c) :
                          f.start # {} =>
                             /\ r_rows[k].start # {}
                             /\ \A a \in f.start : \A b \in r_rows[k].start : a <= b

\* a full-year fact listed before the quarter fact with the same period end,
\* and a fact without a start listed before both
C2_Witness ==
    /\ r_calls >= 1
    /\ Len(r_facts) >= 2
    /\ r_facts[1].fact_key \in standard_map["Revenues"]
    /\ r_facts[2].fact_key \in standard_map["Revenues"]
    /\ r_facts[1].filed = r_filing /\ r_facts[2].filed = r_filing
    /\ r_facts[1].end = {2} /\ r_facts[2].end = {2}
    /\ r_facts[1].start = {1} /\ r_facts[2].start = {2}
    /\ \E k \in RowsOf("Revenues") : r_rows[k].start = {2}

\* C8: every concept has at most one row in the result: exactly one when it
\* has a candidate fact, none (and no error) when it has no candidate.
C8_OneValuePerConcept ==
    r_calls >= 1 =>
        \A c \in Range(Concepts) :
            /\ Candidates(c) # {} => Cardinality(RowsOf(c)) = 1
            /\ Candidates(c) = {} => RowsOf(c) = {}
            /\ \A k \in RowsOf(c) :
                  \E f \in Candidates(c) :
                      /\ f.fact_key = r_rows[k].fact_key
                      /\ f.value = r_rows[k].value

\* two alias tags of Revenues are both candidates, with different values
C8_Witness ==
    /\ r_calls >= 1
    /\ \E f, g \in Candidates("Revenues") :
          f.fact_key # g.fact_key /\ f.value # g.value
    /\ Cardinality(RowsOf("Revenues")) = 1
    /\ RowsOf("Net Income") = {}

\* C9: a second invocation on the same facts, listed in another order,
\* returns the rows of the first invocation.
C9_OrderIndependent ==
    r_calls = 2 => r_rows = r_first


\* ------------------------------------------------------------------------
\* Properties of the market data fetcher
\* ------------------------------------------------------------------------
\* C5: a returned observation carries the as-of date it was asked for and an
\* actual market date that is on or after it, at most 5 days after it, and no
\* Saturday or Sunday; and a call that met no day with a closing price
\* returns the empty result.
C5_MarketWindow ==
    /\ m_data.found =>
          /\ m_data.as_of_date \in m_date
          /\ m_data.actual_market_date >= m_data.as_of_date
          /\ m_data.actual_market_date <= m_data.as_of_date + 5
          /\ m_data.actual_market_date % 7 \notin {5, 6}
    /\ (m_done /\ \A k \in 1..Len(m_seen) : m_seen[k] # "price") => ~m_data.found
    /\ m_date = {} => ~m_data.found

\* asked for a Saturday, the fetcher answers with the Monday after it
C5_Witness ==
    /\ m_done /\ m_date = {5}
    /\ m_data.found /\ m_data.actual_market_date = 7
    /\ m_seen = <<"weekend", "weekend", "price">>

\* C6: the actual market date is the earliest day of the window for which the
\* provider gave a closing price: no earlier iteration met a closing price.
C6_FirstTradingDay ==
    m_data.found =>
        \A k \in 1..Len(m_seen) :
            m_seen[k] = "price" =>
                m_data.actual_market_date <= m_data.as_of_date + (k - 1)


\* ------------------------------------------------------------------------
\* Properties of the batch
\* ------------------------------------------------------------------------
Ratios == {"ROE", "Debt_to_Equity", "Current_Ratio", "Gross_Margin", "P_E_Ratio",
           "FCF_Yield"}

\* the reconciled value of a concept of a ticker for a period end; NaN when
\* the ticker has no such row
Reconciled(ticker, end, concept) ==
    LET rows == {r \in Range(sec_frames) :
                    r.ticker = ticker /\ r.end = {end} /\ r.mapping = concept}
    IN  IF rows = {} THEN NaN ELSE (CHOOSE r \in rows : TRUE).value

HasConcept(ticker, concept) ==
    \E r \in Range(sec_frames) :
        r.ticker = ticker /\ r.mapping = concept /\ ~IsNull(r.value)

HasSecData(ticker) == \E r \in Range(sec_frames) : r.ticker = ticker

HasMarketData(ticker) == \E m \in Range(market_frames) : m.ticker = ticker

TableRows(ticker) == {k \in 1..Len(table) : table[k].ticker = ticker}

\* the quotient cell q is the number a / b
IsQuotient(q, a, b) == q.t = "num" /\ ~IsNull(a) /\ ~IsNull(b) /\ q.n * b.n = q.d * a.n

NullOrZero(x) == IsNull(x) \/ x.n = 0

\* C1: computing the ratios never raises, no ratio of an uploaded row is
\* infinite, and a ratio is null when its denominator is zero or null or its
\* numerator is null.
C1_NullNeverInfinite ==
    /\ b_exit # "raised"
    /\ b_exit = "uploaded" =>
          \A k \in 1..Len(table) :
              LET row == table[k]
                  val(c) == Reconciled(row.ticker, row.as_of_date, c)
              IN  /\ \A ratio \in Ratios : ~IsInfinite(row[ratio])
                  /\ (NullOrZero(val("Total Equity")) \/ IsNull(val("Net Income")))
                        => IsNull(row.ROE)
                  /\ (NullOrZero(val("Total Equity")) \/ IsNull(val("Total Debt")))
                        => IsNull(row.Debt_to_Equity)
                  /\ (NullOrZero(val("Current Liabilities"))
                      \/ IsNull(val("Current Assets"))) => IsNull(row.Current_Ratio)
                  /\ NullOrZero(val("Revenues")) => IsNull(row.Gross_Margin)
                  /\ (NullOrZero(val("Earnings Per Share")) \/ IsNull(row.market_price))
                        => IsNull(row.P_E_Ratio)
                  /\ (NullOrZero(row.market_cap) \/ IsNull(val("Operating Cash Flow")))
                        => IsNull(row.FCF_Yield)

\* C3: the uploaded table has at most one row per ticker.
C3_OneRowPerTicker ==
    b_exit = "uploaded" => \A t \in Tickers : Cardinality(TableRows(t)) <= 1

\* C4: when a ticker with SEC data has no Total Equity (and some ticker has
\* market data) the run still uploads a table, and in it that ticker has ROE and
\* Debt_to_Equity null and Current_Ratio = Current Assets / Current Liabilities.
C4_MissingEquityNullsOnlyItsRatios ==
    (pc = "done" /\ market_frames # <<>>) =>
        \A t \in Tickers :
            (HasSecData(t) /\ ~HasConcept(t, "Total Equity")) =>
                /\ b_exit = "uploaded"
                /\ TableRows(t) # {}
                /\ \A k \in TableRows(t) :
                      /\ IsNull(table[k].ROE)
                      /\ IsNull(table[k].Debt_to_Equity)
                      /\ IsQuotient(table[k].Current_Ratio,
                                    Reconciled(t, table[k].as_of_date, "Current Assets"),
                                    Reconciled(t, table[k].as_of_date,
                                               "Current Liabilities"))

\* C7: when some ticker failed (at the SEC stage, or for lack of market data)
\* and some ticker went through both stages, the run ends with the upload of a
\* table that has a row for each ticker that went through and none for a
\* ticker that failed.
C7_FailureNeverAborts ==
    pc = "done" =>
        LET failed == {t \in Tickers : b_status[t] \in SecFailures \/ ~HasMarketData(t)}
            succeeded == Tickers \ failed
        IN  (failed # {} /\ succeeded # {}) =>
                /\ b_exit = "uploaded"
                /\ \A t \in succeeded : TableRows(t) # {}
                /\ \A t \in failed : TableRows(t) = {}

\* every concept of the ticker is reconciled for one and the same period end
Complete(ticker, end) ==
    \A c \in Range(Concepts) : ~NullOrZero(Reconciled(ticker, end, c))

\* C10: a ticker with complete fundamentals and no market data has a row in
\* the uploaded table with ROE, Debt_to_Equity, Current_Ratio and Gross_Margin
\* computed from its concepts and P_E_Ratio and FCF_Yield null.
C10_NoMarketKeepsFundamentals ==
    pc = "done" =>
        \A t \in Tickers :
            \A end \in {1, 2} :
                (Complete(t, end) /\ ~HasMarketData(t)) =>
                    /\ b_exit = "uploaded"
                    /\ \E k \in TableRows(t) :
                          LET row == table[k]
                              val(c) == Reconciled(t, end, c)
                          IN  /\ IsQuotient(row.ROE, val("Net Income"), val("Total Equity"))
                              /\ IsQuotient(row.Debt_to_Equity,
                                            val("Total Debt"), val("Total Equity"))
                              /\ IsQuotient(row.Current_Ratio, val("Current Assets"),
                                            val("Current Liabilities"))
                              /\ IsQuotient(row.Gross_Margin,
                                            FloatSub(val("Revenues"),
                                                     val("Cost of Goods Sold")),
                                            val("Revenues"))
                              /\ IsNull(row.P_E_Ratio)
                              /\ IsNull(row.FCF_Yield)

\* the destination table as the run in progress found it
TableAtStart == IF b_run = 2 THEN b_first.table ELSE PreviousTable

\* C13: as long as a run has not uploaded (it is still under way, or it has
\* ended without SEC data, without market data, with an empty final table or
\* with an exception) the persisted table is the one the run found.
C13_OnlyUploadWrites ==
    b_exit # "uploaded" => table = TableAtStart

\* the ratio calculation raised after both stages had collected data
C13_Witness ==
    /\ pc = "done" /\ b_run = 1 /\ b_exit = "raised"
    /\ sec_frames # <<>> /\ market_frames # <<>>
    /\ table = PreviousTable

\* C14: the second run against the same upstream answers ends as the first
\* did and leaves the table the first run left; an uploaded table holds no
\* row twice and no row of the table it replaced.
C14_IdempotentUpload ==
    /\ b_run = 2 => (b_exit = b_first.exit /\ table = b_first.table)
    /\ b_exit = "uploaded" =>
          /\ \A j, k \in 1..Len(table) : j # k => table[j] # table[k]
          /\ \A k \in 1..Len(table) : table[k] \notin Range(PreviousTable)

\* both runs uploaded the same two rows
C14_Witness ==
    /\ b_run = 2 /\ b_exit = "uploaded" /\ b_first.exit = "uploaded"
    /\ Len(table) = 2
    /\ table = b_first.table

\* the tickers whose document carries a string as the value of a concept
TextTickers == {t \in Tickers : b_sec_in[t].kind = "text"}

\* C15: in a batch whose only irregular document carries an unparseable value
\* for one concept, the run raises no exception and uploads; the ticker's
\* ratios that reference the concept are null.
C15_UnparseableValueIsNull ==
    (/\ pc = "done"
     /\ TextTickers # {}
     /\ \A t \in Tickers \ TextTickers : b_sec_in[t].kind \in {"fail", "none"}
     /\ \A t \in TextTickers : HasMarketData(t)) =>
        /\ b_exit = "uploaded"
        /\ \A t \in TextTickers : \A k \in TableRows(t) :
              /\ b_sec_in[t].concept = "Net Income" => IsNull(table[k].ROE)
              /\ b_sec_in[t].concept = "CapEx" => IsNull(table[k].FCF_Yield)


\* ------------------------------------------------------------------------
\* Properties of the SEC stage of one ticker
\* ------------------------------------------------------------------------
Fetches == {"submissions", "facts"}

\* positions in the log of the attempts of a fetch, and of its waits
AttemptsOf(fetch) ==
    {k \in 1..Len(s_log) : s_log[k].fetch = fetch /\ s_log[k].kind # "wait"}

FailedOf(fetch) == {k \in AttemptsOf(fetch) : s_log[k].kind # "ok"}

WaitsOf(fetch) ==
    {k \in 1..Len(s_log) : s_log[k].fetch = fetch /\ s_log[k].kind = "wait"}

\* C11: for a ticker without a CIK the SEC stage makes no network call, makes
\* one attempt only, never waits, and ends with the ticker skipped as soon as
\* that attempt has raised.
C11_FailFastOnMissingCik ==
    ~s_cik =>
        /\ \A k \in 1..Len(s_log) : s_log[k].kind \notin NetworkKinds
        /\ \A fetch \in Fetches : WaitsOf(fetch) = {}
        /\ Cardinality(UNION {AttemptsOf(fetch) : fetch \in Fetches}) <= 1
        /\ s_log # <<>> => (s_pc = "done" /\ s_result = "skipped")

\* C12: a fetch is attempted at most 3 times; between a failed attempt and the
\* next attempt the retry waits; an attempt that succeeds is the last attempt
\* of its fetch; after 3 failed attempts the stage is over and the ticker
\* skipped; and a record is produced only when both fetches succeeded.
C12_AtMostThreeAttempts ==
    /\ \A fetch \in Fetches :
          /\ Cardinality(AttemptsOf(fetch)) <= 3
          /\ \A k \in FailedOf(fetch) : \A j \in AttemptsOf(fetch) :
                k < j => \E w \in WaitsOf(fetch) : k < w /\ w < j
          /\ Cardinality(WaitsOf(fetch)) <= Cardinality(FailedOf(fetch))
          /\ \A k \in AttemptsOf(fetch) :
                s_log[k].kind = "ok" => \A j \in AttemptsOf(fetch) : j <= k
          /\ Cardinality(FailedOf(fetch)) = 3 => (s_pc = "done" /\ s_result = "skipped")
    /\ s_result = "record" =>
          \A fetch \in Fetches : \E k \in AttemptsOf(fetch) : s_log[k].kind = "ok"

\* the submissions feed arrives at the third attempt, the facts at the second
C12_Witness ==
    /\ s_pc = "done" /\ s_result = "record"
    /\ Cardinality(FailedOf("submissions")) = 2
    /\ Cardinality(WaitsOf("submissions")) = 2
    /\ Cardinality(FailedOf("facts")) = 1
    /\ Cardinality(AttemptsOf("facts")) = 2


\* ------------------------------------------------------------------------
\* The validate_stock endpoints (SpecApi)
\* ------------------------------------------------------------------------
\* C16: GET /greeter/validate_stock/{query}, called with a valid token and the
\* S&P 500 list loaded, answers 404 for every query that is neither a known
\* ticker nor a known company name, and 200 for a query that is a known ticker.
C16_UnknownQueryIs404 ==
    (a_route = "greeter" /\ a_fault = "none") =>
        /\ (\A row \in Range(SP500) :
                lower(row.ticker) # lower(a_query) /\ lower(row.company_name) # lower(a_query))
           => a_status = 404
        /\ (\E row \in Range(SP500) : row.ticker = a_query) => a_status = 200

AliasFacts(c) == {f \in UsableFacts : f.fact_key \in standard_map[c]}

\* the candidates of concept c when the fallback is decided for c alone
PerConceptCandidates(c) ==
    IF \E f \in AliasFacts(c) : f.filed = r_filing
    THEN {f \in AliasFacts(c) : f.filed = r_filing}
    ELSE {f \in AliasFacts(c) : f.filed = SetMax({g.filed : g \in UsableFacts})}

RowFact(k) ==
    [fact_key |-> r_rows[k].fact_key, value |-> r_rows[k].value,
     start |-> r_rows[k].start, end |-> r_rows[k].end, filed |-> r_rows[k].filed]

\* C18 as stated: the fallback to the maximum filed date is decided per
\* concept: a concept has a row exactly when it has such a candidate, and the
\* row is one of them.
C18_FallbackPerConcept ==
    r_calls >= 1 =>
        \A c \in Range(Concepts) :
            /\ PerConceptCandidates(c) # {} <=> RowsOf(c) # {}
            /\ \A k \in RowsOf(c) : RowFact(k) \in PerConceptCandidates(c)

\* C18, amended: the filed date in scope is decided once for the whole set of
\* not forward-dated facts, whatever their tag: the target filing date when any
\* of them carries it, else their maximum filed date; a concept has a row
\* exactly when one of its alias facts carries the date in scope, and the row
\* is one of those facts.
C18_FallbackOnceForAllFacts ==
    r_calls >= 1 =>
        \A c \in Range(Concepts) :
            /\ Candidates(c) # {} <=> RowsOf(c) # {}
            /\ \A k \in RowsOf(c) :
                  /\ r_rows[k].filed = ScopeFiled
                  /\ RowFact(k) \in Candidates(c)

\* nothing was filed on the target date, a tag outside the mapping carries the
\* latest filed date, and the concepts are read from facts of that date
C18_Witness ==
    /\ r_calls >= 1
    /\ r_filing = 4
    /\ \A f \in UsableFacts : f.filed = 3
    /\ \E f \in UsableFacts : f.fact_key = "Assets"
    /\ \E k \in RowsOf("Revenues") : r_rows[k].filed = 3

\* C19: no row selected for a concept has a missing value, a missing period
\* end or a period end after today, and a fact with a value whose period end
\* is today is not dropped: its concept has a row for that period end.
C19_NoMissingOrFutureFact ==
    r_calls >= 1 =>
        /\ \A k \in 1..Len(r_rows) :
              /\ ~IsNull(r_rows[k].value)
              /\ r_rows[k].end # {}
              /\ \A e \in r_rows[k].end : e <= Today
        /\ \A c \in Range(Concepts) :
              (\E f \in Candidates(c) : f.end = {Today} /\ ~IsNull(f.value))
              => \E k \in RowsOf(c) : r_rows[k].end = {Today}


\* C20: the date that keys the market-data lookup, and the as_of_date of every
\* uploaded row, is the reporting-period end date of the selected filing.
C20_AsOfIsReportDate ==
    /\ \A k \in 1..Len(b_needed) : b_needed[k].end = {BatchReportDate}
    /\ \A k \in 1..Len(market_frames) : market_frames[k].as_of_date = BatchReportDate
    /\ (b_run = 1 /\ b_exit = "uploaded") =>
          \A k \in 1..Len(table) : table[k].as_of_date = BatchReportDate


\* ------------------------------------------------------------------------
\* Properties of the filing locator (SpecFiling)
\* ------------------------------------------------------------------------
\* C21: with the feed retrieved, the filing locator returns None when no
\* filing of the feed has the form 10-K or 10-Q exactly; otherwise it returns
\* a filing of the feed of form 10-K or 10-Q, and no 10-K or 10-Q of the feed
\* has a later filing date, wherever the filings stand in the feed.
C21_LatestQualifyingFiling ==
    (f_pc = "done" /\ f_fetched) =>
        LET qualifying == {k \in 1..Len(f_feed) : f_feed[k].form \in {"10-K", "10-Q"}}
        IN  IF qualifying = {} THEN f_recent = {}
            ELSE \E k \in qualifying :
                    /\ f_recent = {f_feed[k]}
                    /\ \A j \in qualifying :
                          \A a \in f_feed[j].filingDate :
                              /\ f_feed[k].filingDate # {}
                              /\ \A b \in f_feed[k].filingDate : a <= b

\* the latest 10-Q is listed after an amendment filed later, and is returned
C21_Witness ==
    /\ f_pc = "done" /\ f_fetched
    /\ Len(f_feed) = 2
    /\ f_feed[1].form = "10-Q/A" /\ f_feed[1].filingDate = {2}
    /\ f_feed[2].form = "10-Q" /\ f_feed[2].filingDate = {1}
    /\ f_recent = {f_feed[2]}


\* ------------------------------------------------------------------------
\* Properties of the alias lists (SpecAlias)
\* ------------------------------------------------------------------------
ValuesOf(rows, c) == {rows[k].value : k \in {j \in 1..Len(rows) : rows[j].mapping = c}}

\* C22: putting the aliases of a concept in another order never changes the
\* value the reconciler assigns to any concept.
C22_AliasOrderNoPreference ==
    r_calls = 2 =>
        \A c \in Range(Concepts) : ValuesOf(r_rows, c) = ValuesOf(r_first, c)

\* two aliases of the concept have candidate facts for the same period end,
\* with different values, and the second invocation ran with the aliases in
\* another order
C22_Witness ==
    /\ r_calls = 2
    /\ p_concept = "Cost of Goods Sold"
    /\ p_keys[1] # standard_map_items["Cost of Goods Sold"][1]
    /\ Len(r_facts) = 2
    /\ r_facts[1].fact_key = p_keys[1]
    /\ r_facts[2].fact_key = standard_map_items["Cost of Goods Sold"][1]
    /\ r_facts[1].value # r_facts[2].value
    /\ r_facts[1].end = r_facts[2].end
    /\ r_facts[1].filed = r_filing /\ r_facts[2].filed = r_filing
    /\ ValuesOf(r_rows, "Cost of Goods Sold") = {r_facts[1].value}


\* C23: in the uploaded table, a ticker without a Cost of Goods Sold fact has
\* Gross_Margin = (Revenues - 0) / Revenues, and a ticker without a CapEx fact
\* has FCF_Yield = Operating Cash Flow / market_cap (Free_Cash_Flow is its
\* Operating Cash Flow), whatever the other tickers of the batch report.
C23_AbsentConceptDefaultsToZero ==
    (b_run = 1 /\ b_exit = "uploaded") =>
        \A t \in Tickers :
            \A k \in TableRows(t) :
                /\ b_sec_in[t] = [kind |-> "drop", concept |-> "Cost of Goods Sold"]
                   => table[k].Gross_Margin =
                         FloatDiv(FloatSub(Num(BaseValue["Revenues"]), Num(0)),
                                  Num(BaseValue["Revenues"]))
                /\ b_sec_in[t] = [kind |-> "drop", concept |-> "CapEx"]
                   => table[k].FCF_Yield =
                         FloatDiv(FloatSub(Num(BaseValue["Operating Cash Flow"]), Num(0)),
                                  table[k].market_cap)


C25_InfoRetries ==
    (Len(m_seen) >= 1 /\ m_seen[Len(m_seen)] = "price") =>
        /\ Len(m_reads) >= 1 /\ Len(m_reads) <= 3
        /\ \A k \in 1..Len(m_reads) : m_reads[k] = "ok" => k = Len(m_reads)
        /\ (\A k \in 1..Len(m_reads) : m_reads[k] = "raise") =>
              /\ Len(m_reads) = 3
              /\ m_done /\ m_data.found
              /\ \A base \in m_date : m_data.actual_market_date = base + (Len(m_seen) - 1)
              /\ m_data.market_price = Num(7)
              /\ IsNull(m_data.market_cap)
              /\ m_data.dividend = Num(0)

\* a Monday with a closing price on which all three reads of stock.info raise
C25_Witness ==
    /\ m_date = {0}
    /\ m_seen = <<"price">>
    /\ m_reads = <<"raise", "raise", "raise">>
    /\ m_done /\ m_data.found
    /\ m_data.actual_market_date = 0
    /\ IsNull(m_data.market_cap)


\* ------------------------------------------------------------------------
\* Properties of the background task and the SSE streams (SpecSse)
\* ------------------------------------------------------------------------
Terminated(s) == g_streams[s].pc \in {"done", "cancelled"}

\* C26 as stated: a stream never polls the store more than max_wait_cycles
\* times and never emits two events; once it has terminated it has emitted
\* exactly one event, the timeout event only after max_wait_cycles polls that
\* found no entry.
C26_ExactlyOneEvent ==
    \A s \in Streams :
        /\ g_streams[s].polls <= max_wait_cycles
        /\ Len(g_streams[s].events) <= 1
        /\ Terminated(s) =>
              /\ Len(g_streams[s].events) = 1
              /\ g_streams[s].events[1] = timeout_result
                 => /\ g_streams[s].polls = max_wait_cycles
                    /\ g_streams[s].cycles_waited = max_wait_cycles

\* C26, amended: the above for a stream that ends by itself; a stream that is
\* cancelled by a client disconnect has emitted at most one event, none when
\* the disconnect came while it was waiting.
C26_OneEventUnlessCancelled ==
    \A s \in Streams :
        /\ g_streams[s].polls <= max_wait_cycles
        /\ Len(g_streams[s].events) <= 1
        /\ g_streams[s].pc = "done" => Len(g_streams[s].events) = 1
        /\ \A k \in 1..Len(g_streams[s].events) :
              IF g_streams[s].events[k] = timeout_result
              THEN /\ g_streams[s].polls = max_wait_cycles
                   /\ g_streams[s].cycles_waited = max_wait_cycles
              ELSE /\ g_streams[s].events[k] \in Range(t_writes)
                   /\ g_streams[s].polls <= max_wait_cycles
                   /\ g_streams[s].cycles_waited < max_wait_cycles

\* one stream ends with the timeout event after max_wait_cycles polls, another
\* is cancelled before any event
C26_Witness ==
    \E s, u \in Streams :
        /\ g_streams[s].pc = "done"
        /\ g_streams[s].events = <<timeout_result>>
        /\ g_streams[s].polls = max_wait_cycles
        /\ g_streams[u].pc = "cancelled"
        /\ g_streams[u].events = <<>>

\* C27: once the background task and every stream on the task_id have
\* terminated, results_store holds no entry for the task_id.
C27_NoEntryLeftBehind ==
    (t_pc = "done" /\ \A s \in Streams : Terminated(s)) => results_store = {}

C29_OneEntryOnEveryPath ==
    /\ t_pc # "raised"
    /\ Len(t_writes) <= 1
    /\ t_pc = "done" =>
          /\ Len(t_writes) = 1
          /\ t_writes[1].status \in {"completed", "error"}
          /\ t_writes[1].status = "completed" => (t_quant = "ok_dict" /\ t_synth = "ok")
    /\ (\E k \in 1..Len(t_calls) : t_calls[k] = "synth") => t_quant = "ok_dict"
    /\ t_quant \notin {"", "ok_dict"} => t_synth = ""

\* the quantitative call returns 200 with a result that is no dict: the
\* ValueError is caught, one entry with status "error" is written and the
\* synthesis call is not made
C29_Witness ==
    /\ t_pc = "done"
    /\ t_quant = "ok_not_dict"
    /\ t_calls = <<"quant">>
    /\ Len(t_writes) = 1
    /\ t_writes[1] = [status |-> "error", data |-> "An unexpected error occurred"]


====
